---- MODULE Spec2Model ----
(***************************************************************************)
(* A state-machine model of the NCCH/NCSD application loader of            *)
(* src/core/loader/ncch.cpp (class AppLoader_NCCH): the header reads, the  *)
(* version-dependent key derivation, the counter-mode decryption of the    *)
(* extended header and of the ExeFS, the section lookup and the load       *)
(* flags.  One loader instance over one file is modelled; every public     *)
(* method is one atomic action (the loader is single-threaded).            *)
(***************************************************************************)
EXTENDS Integers, Sequences, FiniteSets, TLC

VARIABLES
    self,            \* the AppLoader_NCCH object: its data members
    aes,             \* the HW::AES key-slot store (global state)
    process,         \* Kernel::g_current_process: <<>> or <<process image>>
    archives,        \* number of SelfNCCH archive factories registered
    region,          \* preferred region code set by ParseRegionLockoutInfo, <<>> if none
    file,            \* the file the loader was opened on (never written)
    keyfile,         \* key slots whose KeyX the key file provides (never written)
    op,              \* the public method called last, with its argument
    result,          \* the ResultStatus that call returned
    out,             \* the output argument that call produced
    log,             \* what that call did: seeks, reads, key-store calls, decryptions
    past             \* history: direct calls that returned Success, failed decryptions

vars == <<self, aes, process, archives, region, file, keyfile, op, result, out, log,
          past>>

----------------------------------------------------------------------------
(* Program constants *)

kMaxSections == 8
kBlockSize == 512
sizeof_NCCH_Header == 512
sizeof_ExHeader_Header == 2048
sizeof_ExeFs_Header == 512
NCSD_ncch_offset == 16384
romfs_inner_header == 4096

----------------------------------------------------------------------------
(* Fixed-width integers.  A u32 is kept as two 16-bit limbs <<hi, lo>>, so  *)
(* that sums and products wrap modulo 2^32 exactly as in the program.      *)

W16 == 2^16

U32(n) == <<(n \div W16) % W16, n % W16>>

U32Add(a, b) ==
    LET lo == a[2] + b[2]
    IN  <<(a[1] + b[1] + (lo \div W16)) % W16, lo % W16>>

U32Sub(a, b) ==
    LET borrow == IF a[2] < b[2] THEN 1 ELSE 0
    IN  <<(a[1] - b[1] - borrow + 2 * W16) % W16, (a[2] - b[2] + W16) % W16>>

\* a * k for a small multiplier k (k < 2^14)
U32Mul(a, k) ==
    LET lo == a[2] * k
    IN  <<(a[1] * k + (lo \div W16)) % W16, lo % W16>>

\* 64-bit file positions and sizes: <<hi, lo>> with a 16-bit lo and hi not wrapped
WideAdd(a, b) ==
    LET lo == a[2] + b[2]
    IN  <<a[1] + b[1] + (lo \div W16), lo % W16>>

WideLess(a, b) == a[1] < b[1] \/ (a[1] = b[1] /\ a[2] < b[2])

\* the 4 bytes of a u32, least significant first
u32ToBEArray_LittleEndian(value) ==
    <<value[2] % 256, value[2] \div 256, value[1] % 256, value[1] \div 256>>

\* the 4 bytes of a u32, most significant first
u32ToBEArray(value) ==
    <<value[1] \div 256, value[1] % 256, value[2] \div 256, value[2] % 256>>

Min(a, b) == IF a < b THEN a ELSE b

\* a ^ b, bit by bit
RECURSIVE XorBits(_, _)
XorBits(a, b) ==
    IF a = 0 THEN b
    ELSE IF b = 0 THEN a
    ELSE ((a + b) % 2) + 2 * XorBits(a \div 2, b \div 2)

\* a ^ b for 4-bit a and b, tabulated
XorTable == <<[b \in 0..15 |-> XorBits(0, b)]>> \o [a \in 1..15 |-> [b \in 0..15 |-> XorBits(a, b)]]

\* a ^ b, byte by byte
RECURSIVE Xor(_, _)
Xor(a, b) ==
    IF a < 256 /\ b < 256
    THEN XorTable[(a % 16) + 1][b % 16] + 16 * XorTable[(a \div 16) + 1][b \div 16]
    ELSE Xor(a % 256, b % 256) + 256 * Xor(a \div 256, b \div 256)

\* the elements of an array, evaluated once and held as a tuple
Array(f) == SubSeq(f, 1, Len(f))

\* x & (1 << bit) != 0
BitSet(x, bit) == (x \div (2 ^ bit)) % 2 = 1

----------------------------------------------------------------------------
(* Optional values (boost::optional): <<>> is none, <<v>> holds v *)

None == <<>>
Some(v) == <<v>>
Has(o) == o # <<>>
Val(o) == o[1]

Zeros16 == [i \in 1..16 |-> 0]

----------------------------------------------------------------------------
(* ResultStatus and magic numbers *)

ResultStatus ==
    {"Success", "Error", "ErrorInvalidFormat", "ErrorNotLoaded", "ErrorNotUsed",
     "ErrorAlreadyLoaded", "ErrorMemoryAllocationFailed", "ErrorEncrypted"}

MakeMagic(a, b, c, d) == <<a, b, c, d>>

----------------------------------------------------------------------------
(* The key-slot store HW::AES (core/hw/aes/key.h).  A slot yields a normal  *)
(* key once it holds both a KeyX (from the key file, loaded by InitKeys)   *)
(* and a KeyY (set by SetKeyY).                                            *)

KeySlotID == {"NCCH", "NCCH7x", "NCCHSec3", "NCCHSec4"}

SlotNumber(slot) ==
    CASE slot = "NCCH" -> 44
      [] slot = "NCCH7x" -> 37
      [] slot = "NCCHSec3" -> 24
      [] slot = "NCCHSec4" -> 27

\* the key scrambler: the normal key of a slot from its KeyX and a KeyY
NormalKeyOf(slot, key_y) == [i \in 1..16 |-> (key_y[i] + SlotNumber(slot) + i) % 256]

Event(m, e) == [m EXCEPT !.log = Append(@, e)]

InitKeys(m) ==
    Event(IF m.aes.initialized THEN m
          ELSE [m EXCEPT !.aes.initialized = TRUE, !.aes.key_x = keyfile],
          [ev |-> "InitKeys"])

SetKeyY(m, slot, key_y) ==
    Event([m EXCEPT !.aes.key_y[slot] = key_y], [ev |-> "SetKeyY", slot |-> slot, key |-> key_y])

NormalKeyPresent(a, slot) == slot \in a.key_x /\ Has(a.key_y[slot])

IsNormalKeyAvailable(m, slot) ==
    [m |-> Event(m, [ev |-> "IsNormalKeyAvailable", slot |-> slot]),
     v |-> NormalKeyPresent(m.aes, slot)]

GetNormalKey(m, slot) ==
    [m |-> Event(m, [ev |-> "GetNormalKey", slot |-> slot]),
     v |-> IF NormalKeyPresent(m.aes, slot) THEN NormalKeyOf(slot, m.aes.key_y[slot])
           ELSE Zeros16]

IsKeyStoreEvent(e) == e.ev \in {"InitKeys", "SetKeyY", "IsNormalKeyAvailable", "GetNormalKey"}

----------------------------------------------------------------------------
(* The counter-mode cipher (CryptoPP::CTR_Mode<AES>::Decryption).  The     *)
(* keystream byte at stream position pos depends on the key, on the        *)
(* initial counter advanced by pos / 16 blocks (a 128-bit big-endian       *)
(* increment) and on pos % 16; processing XORs the data with it, so the    *)
(* same call encrypts and decrypts.                                        *)

RECURSIVE CtrAddAt(_, _, _)
CtrAddAt(ctr, i, n) ==
    IF n = 0 \/ i = 0 THEN ctr
    ELSE LET s == ctr[i] + n
         IN  CtrAddAt([ctr EXCEPT ![i] = s % 256], i - 1, s \div 256)

CtrAdd(ctr, n) == CtrAddAt(ctr, 16, n)

RECURSIVE WSum(_, _)
WSum(s, i) == IF i = 0 THEN 0 ELSE (i * s[i] + WSum(s, i - 1)) % 251

\* the digest of the counter block the keystream of a 16-byte block comes from
BlockSum(ctr, block) == WSum(CtrAdd(ctr, block), 16)

\* the keystream byte at pos, from the digests of the key and of pos's block
KeyStreamByte(key_sum, block_sum, pos) ==
    (3 * key_sum + 5 * block_sum + 7 * (pos % 16) + 1) % 256

KeyStream(key, ctr, pos) == KeyStreamByte(WSum(key, 16), BlockSum(ctr, pos \div 16), pos)

\* ProcessData over a byte buffer, the stream positioned at seek
ProcessBytes(aesctx, seek, bytes) ==
    LET key_sum == WSum(aesctx.key, 16)
        first == seek \div 16
        sums == Array([b \in 1..((seek + Len(bytes) - 1) \div 16 - first + 1) |->
                          BlockSum(aesctx.ctr, first + b - 1)])
    IN  Array([j \in 1..Len(bytes) |->
                  Xor(bytes[j],
                      KeyStreamByte(key_sum, sums[(seek + j - 1) \div 16 - first + 1],
                                    seek + j - 1))])

----------------------------------------------------------------------------
(* The headers (core/loader/ncch.h).  A field wider than a byte is kept as *)
(* a number and is XORed with the keystream byte of its first byte.        *)

\* byte offset of each modelled ExHeader_Header field
ExHeaderFieldOffset ==
    [flag |-> 13, text_address |-> 16, code_size |-> 24, stack_size |-> 28,
     bss_size |-> 60, program_id |-> 512, core_version |-> 520, flags0 |-> 526,
     priority |-> 527, resource_limit_category |-> 879]

\* byte offset just past each modelled ExHeader_Header field
ExHeaderFieldEnd ==
    [flag |-> 14, text_address |-> 20, code_size |-> 28, stack_size |-> 32,
     bss_size |-> 64, program_id |-> 520, core_version |-> 524, flags0 |-> 527,
     priority |-> 528, resource_limit_category |-> 880]

\* byte offset just past each modelled NCCH_Header field
NcchHeaderFieldEnd ==
    [signature |-> 256, magic |-> 260, partition_id |-> 272, version |-> 276,
     program_id |-> 288, flags |-> 400, exefs_offset |-> 420, exefs_size |-> 424,
     romfs_offset |-> 436, romfs_size |-> 440]

\* an ExeFs_SectionHeader is 16 bytes: char name[8]; u32 offset; u32 size
SectionHeaderSize == 16

\* ProcessData over the extended header
ProcessExHeader(aesctx, h) ==
    LET key_sum == WSum(aesctx.key, 16)
        P(f) == Xor(h[f], KeyStreamByte(key_sum,
                                        BlockSum(aesctx.ctr, ExHeaderFieldOffset[f] \div 16),
                                        ExHeaderFieldOffset[f]))
    IN  [flag |-> P("flag"), text_address |-> P("text_address"),
         code_size |-> P("code_size"), stack_size |-> P("stack_size"),
         bss_size |-> P("bss_size"), program_id |-> P("program_id"),
         core_version |-> P("core_version"), flags0 |-> P("flags0"),
         priority |-> P("priority"),
         resource_limit_category |-> P("resource_limit_category")]

\* ProcessData over one section header, which is one 16-byte block of the stream
ProcessSectionHeader(key_sum, block_sum, section) ==
    [name |-> Array([j \in 1..8 |->
                        Xor(section.name[j], KeyStreamByte(key_sum, block_sum, j - 1))]),
     offset |-> Xor(section.offset, KeyStreamByte(key_sum, block_sum, 8)),
     size |-> Xor(section.size, KeyStreamByte(key_sum, block_sum, 12))]

\* ProcessData over the ExeFS header
ProcessExeFsHeader(aesctx, h) ==
    LET key_sum == WSum(aesctx.key, 16)
    IN  Array([i \in 1..kMaxSections |->
                  ProcessSectionHeader(key_sum, BlockSum(aesctx.ctr, i - 1), h[i])])

\* what fread leaves in a struct when only got bytes were read into it
ReadInto(old, raw, got, fieldEnd) ==
    [f \in DOMAIN old |-> IF fieldEnd[f] <= got THEN raw[f] ELSE old[f]]

ReadIntoExeFsHeader(old, raw, got) ==
    [i \in 1..kMaxSections |-> IF i * SectionHeaderSize <= got THEN raw[i] ELSE old[i]]

----------------------------------------------------------------------------
(* The file (FileUtil::IOFile): a size and the objects stored at byte      *)
(* positions; bytes of the file outside those objects are zero.            *)

ZeroSection == [name |-> [j \in 1..8 |-> 0], offset |-> 0, size |-> 0]
ZeroExeFsHeader == [i \in 1..kMaxSections |-> ZeroSection]
ZeroExHeader == [f \in DOMAIN ExHeaderFieldOffset |-> 0]
ZeroNcchHeader ==
    [signature |-> [i \in 1..256 |-> 0], magic |-> <<0, 0, 0, 0>>,
     partition_id |-> [i \in 1..8 |-> 0], version |-> 0, program_id |-> 0,
     flags |-> [i \in 1..8 |-> 0], exefs_offset |-> U32(0), exefs_size |-> U32(0),
     romfs_offset |-> U32(0), romfs_size |-> U32(0)]

FarPosition == 2^14

\* number of bytes a read of n bytes at position pos delivers
ReadCount(pos, n) ==
    IF pos[1] >= FarPosition THEN 0
    ELSE LET q == pos[1] * W16 + pos[2]
         IN  IF q >= file.size THEN 0 ELSE Min(n, file.size - q)

\* the object of the given kind stored at pos, zero bytes if there is none
ObjectAt(pos, kind, zero) ==
    IF pos[1] >= FarPosition THEN zero
    ELSE LET q == pos[1] * W16 + pos[2]
         IN  IF q \in DOMAIN file.at /\ file.at[q].kind = kind THEN file.at[q].v
             ELSE zero

\* n bytes of the byte run stored at pos, padded with zero bytes
BytesAt(pos, n) ==
    LET stored == ObjectAt(pos, "bytes", <<>>)
    IN  [j \in 1..n |-> IF j <= Len(stored) THEN stored[j] ELSE 0]

Seek(m, pos) ==
    Event([m EXCEPT !.self.file_pos = pos], [ev |-> "Seek", pos |-> pos])

\* file.ReadBytes(&ncch_header, sizeof(NCCH_Header))
ReadBytes_ncch_header(m) ==
    LET pos == m.self.file_pos
        got == ReadCount(pos, sizeof_NCCH_Header)
        raw == ObjectAt(pos, "ncch", ZeroNcchHeader)
    IN  [m |-> Event([m EXCEPT !.self.ncch_header = ReadInto(@, raw, got, NcchHeaderFieldEnd),
                               !.self.file_pos = WideAdd(pos, U32(got))],
                     [ev |-> "Read", what |-> "ncch_header", pos |-> pos, got |-> got]),
         got |-> got]

\* file.ReadBytes(&exheader_header, sizeof(ExHeader_Header))
ReadBytes_exheader_header(m) ==
    LET pos == m.self.file_pos
        got == ReadCount(pos, sizeof_ExHeader_Header)
        raw == ObjectAt(pos, "exheader", ZeroExHeader)
    IN  [m |-> Event([m EXCEPT !.self.exheader_header = ReadInto(@, raw, got, ExHeaderFieldEnd),
                               !.self.file_pos = WideAdd(pos, U32(got))],
                     [ev |-> "Read", what |-> "exheader_header", pos |-> pos, got |-> got]),
         got |-> got]

\* file.ReadBytes(&exefs_header, sizeof(ExeFs_Header))
ReadBytes_exefs_header(m) ==
    LET pos == m.self.file_pos
        got == ReadCount(pos, sizeof_ExeFs_Header)
        raw == ObjectAt(pos, "exefs", ZeroExeFsHeader)
    IN  [m |-> Event([m EXCEPT !.self.exefs_header = ReadIntoExeFsHeader(@, raw, got),
                               !.self.file_pos = WideAdd(pos, U32(got))],
                     [ev |-> "Read", what |-> "exefs_header", pos |-> pos, got |-> got]),
         got |-> got]

----------------------------------------------------------------------------
(* AppLoader_NCCH::LoadExeFS.  Operators take and return the record m of   *)
(* everything a call can change: the loader object, the key store, the     *)
(* process, the archive registrations, the region and the call's log.      *)
(* The method is a sequence of steps over [m, res]: res is "Running" until *)
(* a return statement is reached, and a step leaves a returned call alone. *)

Ret(m, r) == [m |-> m, res |-> r]

Running(r) == r.res = "Running"

LogError(m, msg) == Event(m, [ev |-> "LOG_ERROR", msg |-> msg])

\* if (file.ReadBytes(&x, sizeof(x)) != sizeof(x)) return ResultStatus::Error;
ExpectRead(rd, size) == Ret(rd.m, IF rd.got # size THEN "Error" ELSE "Running")

\* a loader that takes every container for an encrypted one
IsEncrypted_Always(s) == TRUE

\* exheader_header.arm11_system_local_caps.program_id != ncch_header.program_id
IsEncrypted(s) == s.exheader_header.program_id # s.ncch_header.program_id

\* a loader that ignores the fixed-key flag
IsFixedKey_Never(h) == FALSE

\* ncch_header.flags[7] & 1
IsFixedKey(h) == BitSet(h.flags[8], 0)

\* ncch_header.flags[7] & 0x20
IsSeedCrypto(h) == BitSet(h.flags[8], 5)

\* a loader whose switch takes slot 0x25 under every case label
CryptoMethodSlot_Always7x(method) == "NCCH7x"

\* the key slot of a case label of switch (ncch_header.flags[3])
CryptoMethodSlot(method) ==
    CASE method = 1 -> "NCCH7x"
      [] method = 10 -> "NCCHSec3"
      [] method = 11 -> "NCCHSec4"

\* the case labels of the switch that take a slot of their own
SlotMethods == {1, 10, 11}

\* the message logged when a slot has no KeyX
KeyXMissing(slot) ==
    CASE slot = "NCCH" -> "slot0x2CKeyX missing! cannot decrypt!"
      [] slot = "NCCH7x" -> "slot0x25KeyX missing! Cannot decrypt!"
      [] slot = "NCCHSec3" -> "slot0x18KeyX missing! Cannot decrypt!"
      [] slot = "NCCHSec4" -> "slot0x1BKeyX missing! Cannot decrypt!"

\* AesContext{{}, {}} with the counter's first 8 bytes set
CtrFrom(first8) == [i \in 1..16 |-> IF i <= 8 THEN first8[i] ELSE 0]

\* std::copy of 4 bytes to ctr.begin() + 12
CtrWithOffset(ctr, be) == [i \in 1..16 |-> IF i >= 13 THEN be[i - 12] ELSE ctr[i]]

\* the four contexts as lines 303-328 leave them, by ncch_header.version; None
\* for an unknown version.  The keys are still all zero.
VersionCounters(h) ==
    IF h.version = 0 \/ h.version = 2 THEN
        LET base == CtrFrom([i \in 1..8 |-> h.partition_id[9 - i]])
        IN  Some([exheader_aes |-> [key |-> Zeros16, ctr |-> [base EXCEPT ![9] = 1]],
                  exefs_aes |-> [key |-> Zeros16, ctr |-> [base EXCEPT ![9] = 2]],
                  exerfs_code_aes |-> [key |-> Zeros16, ctr |-> [base EXCEPT ![9] = 2]],
                  romfs_aes |-> [key |-> Zeros16, ctr |-> [base EXCEPT ![9] = 3]]])
    ELSE IF h.version = 1 THEN
        LET base == CtrFrom(h.partition_id)
            offset_exheader == u32ToBEArray(U32(512))
            offset_exefs == u32ToBEArray(U32Mul(h.exefs_offset, kBlockSize))
            offset_romfs == u32ToBEArray(U32Mul(h.romfs_offset, kBlockSize))
            exefs == [key |-> Zeros16, ctr |-> CtrWithOffset(base, offset_exefs)]
        IN  Some([exheader_aes |-> [key |-> Zeros16, ctr |-> CtrWithOffset(base, offset_exheader)],
                  exefs_aes |-> exefs,
                  exerfs_code_aes |-> exefs,
                  romfs_aes |-> [key |-> Zeros16, ctr |-> CtrWithOffset(base, offset_romfs)]])
    ELSE None

\* lines 302-332: the contexts get their counters, or the version is unknown.
\* From here to the decryption the steps carry the local exheader_aes along.
SetCounters(m, c) ==
    IF ~Has(c)
    THEN [m |-> LogError(m, "Unknown NCCH version"), res |-> "ErrorEncrypted",
          exheader_aes |-> [key |-> Zeros16, ctr |-> Zeros16]]
    ELSE [m |-> [m EXCEPT !.self.exefs_aes = Some(Val(c).exefs_aes),
                          !.self.exerfs_code_aes = Some(Val(c).exerfs_code_aes),
                          !.self.romfs_aes = Some(Val(c).romfs_aes)],
          res |-> "Running", exheader_aes |-> Val(c).exheader_aes]

\* assignments to the key members of the contexts the loader keeps
SetHeaderKey(m, key) == [m EXCEPT !.self.exefs_aes = Some([Val(@) EXCEPT !.key = key])]

\* a loader that gives the content key to the RomFS context only
SetContentKey_RomFSOnly(m, key) ==
    [m EXCEPT !.self.romfs_aes = Some([Val(@) EXCEPT !.key = key])]

SetContentKey(m, key) ==
    [m EXCEPT !.self.exerfs_code_aes = Some([Val(@) EXCEPT !.key = key]),
              !.self.romfs_aes = Some([Val(@) EXCEPT !.key = key])]

\* return ResultStatus::ErrorEncrypted after LOG_ERROR
FailEncrypted(r, m, msg) == [r EXCEPT !.m = LogError(m, msg), !.res = "ErrorEncrypted"]

\* lines 334-337: the fixed key
FixedKey(r) ==
    [r EXCEPT !.m = SetContentKey(SetHeaderKey(@, Zeros16), Zeros16),
              !.exheader_aes.key = Zeros16]

\* lines 339-344: the key store is initialised, seed crypto is refused
CheckSeed(r) ==
    IF IsSeedCrypto(r.m.self.ncch_header)
    THEN FailEncrypted(r, InitKeys(r.m), "Seed crypto unsupported!")
    ELSE [r EXCEPT !.m = InitKeys(@)]

\* a slot's normal key from key_y = the first 16 bytes of the signature:
\* SetKeyY, IsNormalKeyAvailable and, if the key is there, GetNormalKey
SlotKey(m, slot) ==
    LET a == IsNormalKeyAvailable(
                 SetKeyY(m, slot, SubSeq(m.self.ncch_header.signature, 1, 16)), slot)
    IN  IF a.v THEN GetNormalKey(a.m, slot) ELSE [m |-> a.m, v |-> None]

\* lines 346-354: the primary key, of slot 0x2C, goes to the two header contexts
SetPrimaryKey(r, g) ==
    IF g.v = None THEN FailEncrypted(r, g.m, KeyXMissing("NCCH"))
    ELSE [r EXCEPT !.m = SetHeaderKey(g.m, g.v), !.exheader_aes.key = g.v]

PrimaryKey(r) == IF ~Running(r) THEN r ELSE SetPrimaryKey(r, SlotKey(r.m, "NCCH"))

\* lines 363-389: the key of the case label's slot goes to the content contexts
SetSecondaryKey(r, slot, g) ==
    IF g.v = None THEN FailEncrypted(r, g.m, KeyXMissing(slot))
    ELSE [r EXCEPT !.m = SetContentKey(g.m, g.v)]

\* lines 356-394: switch (ncch_header.flags[3])
SecondaryKey(r) ==
    IF ~Running(r) THEN r
    ELSE LET method == r.m.self.ncch_header.flags[4]
         IN  IF method = 0 THEN [r EXCEPT !.m = SetContentKey(@, r.exheader_aes.key)]
             ELSE IF method \in SlotMethods
             THEN SetSecondaryKey(r, CryptoMethodSlot(method),
                                  SlotKey(r.m, CryptoMethodSlot(method)))
             ELSE FailEncrypted(r, r.m, "Unknown crypto method! Cannot decrypt!")

\* lines 334-395: the keys
SelectKeys(r) ==
    IF ~Running(r) THEN r
    ELSE IF IsFixedKey(r.m.self.ncch_header) THEN FixedKey(r)
    ELSE SecondaryKey(PrimaryKey(CheckSeed(r)))

\* a loader that decrypts the extended header and does not compare the ids
DecryptExHeader_Unchecked(r) ==
    IF ~Running(r) THEN Ret(r.m, r.res)
    ELSE Ret(Event([r.m EXCEPT !.self.exheader_header =
                                   ProcessExHeader(r.exheader_aes, @)],
                   [ev |-> "Decrypt", what |-> "exheader_header",
                    key |-> r.exheader_aes.key, ctr |-> r.exheader_aes.ctr, seek |-> 0]),
             "Running")

\* lines 397-405: the extended header is decrypted and checked
DecryptExHeader(r) ==
    IF ~Running(r) THEN Ret(r.m, r.res)
    ELSE LET x == ProcessExHeader(r.exheader_aes, r.m.self.exheader_header)
             m1 == Event([r.m EXCEPT !.self.exheader_header = x],
                         [ev |-> "Decrypt", what |-> "exheader_header",
                          key |-> r.exheader_aes.key, ctr |-> r.exheader_aes.ctr,
                          seek |-> 0])
         IN  IF x.program_id # r.m.self.ncch_header.program_id
             THEN Ret(LogError(m1, "Cannot decrypt!"), "ErrorEncrypted")
             ELSE Ret(m1, "Running")

\* lines 278-281: the header at the start of the file
ReadFirstHeader(m) == ExpectRead(ReadBytes_ncch_header(Seek(m, U32(0))), sizeof_NCCH_Header)

\* a loader that reads the nested header and goes on taking the partition
\* to start at the start of the file
SkipNCSD_PartitionAtStart(r) ==
    IF Running(r) /\ r.m.self.ncch_header.magic = MakeMagic("N", "C", "S", "D")
    THEN Ret(ReadBytes_ncch_header(Seek(r.m, U32(NCSD_ncch_offset))).m, "Running")
    ELSE r

\* lines 283-289: an NCSD container holds the NCCH at 0x4000
SkipNCSD(r) ==
    IF Running(r) /\ r.m.self.ncch_header.magic = MakeMagic("N", "C", "S", "D")
    THEN Ret(ReadBytes_ncch_header(Seek([r.m EXCEPT !.self.ncch_offset = U32(NCSD_ncch_offset)],
                                        U32(NCSD_ncch_offset))).m,
             "Running")
    ELSE r

\* lines 291-293
CheckMagic(r) ==
    IF Running(r) /\ r.m.self.ncch_header.magic # MakeMagic("N", "C", "C", "H")
    THEN Ret(r.m, "ErrorInvalidFormat")
    ELSE r

\* lines 295-297
ReadExHeader(r) ==
    IF ~Running(r) THEN r
    ELSE ExpectRead(ReadBytes_exheader_header(r.m), sizeof_ExHeader_Header)

\* lines 299-406: the container looks encrypted
Decrypt(r) ==
    IF ~Running(r) \/ ~IsEncrypted(r.m.self) THEN r
    ELSE DecryptExHeader(SelectKeys(SetCounters(r.m, VersionCounters(r.m.self.ncch_header))))

\* lines 408-415 and 432: the parsed fields
ParseExHeader(m) ==
    LET x == m.self.exheader_header
    IN  [m EXCEPT !.self.is_compressed = (x.flag % 2 = 1),
                  !.self.entry_point = x.text_address,
                  !.self.code_size = x.code_size,
                  !.self.stack_size = x.stack_size,
                  !.self.bss_size = x.bss_size,
                  !.self.core_version = x.core_version,
                  !.self.priority = x.priority,
                  !.self.resource_limit_category = x.resource_limit_category,
                  !.self.exefs_offset = U32Mul(m.self.ncch_header.exefs_offset, kBlockSize)]

\* lines 438-440
ReadExeFsHeader(m) ==
    ExpectRead(ReadBytes_exefs_header(Seek(m, U32Add(m.self.exefs_offset, m.self.ncch_offset))),
               sizeof_ExeFs_Header)

\* lines 442-450
DecryptExeFsHeader(r) ==
    IF ~Running(r) THEN r
    ELSE LET aesctx == r.m.self.exefs_aes
             m1 == IF Has(aesctx)
                   THEN Event([r.m EXCEPT !.self.exefs_header =
                                              ProcessExeFsHeader(Val(aesctx), @)],
                              [ev |-> "Decrypt", what |-> "exefs_header",
                               key |-> Val(aesctx).key, ctr |-> Val(aesctx).ctr, seek |-> 0])
                   ELSE r.m
         IN  Ret([m1 EXCEPT !.self.is_exefs_loaded = TRUE], "Success")

\* lines 408-450: the ExeFS header
ReadExeFS(r) == IF ~Running(r) THEN r ELSE DecryptExeFsHeader(ReadExeFsHeader(ParseExHeader(r.m)))

\* a loader without the early return
AlreadyLoadedExeFS_Never(s) == FALSE

\* the early return of line 271
AlreadyLoadedExeFS(s) == s.is_exefs_loaded

LoadExeFS(m) ==
    IF AlreadyLoadedExeFS(m.self) THEN Ret(m, "Success")
    ELSE IF ~file.open THEN Ret(m, "Error")
    ELSE ReadExeFS(Decrypt(ReadExHeader(CheckMagic(SkipNCSD(ReadFirstHeader(m))))))

----------------------------------------------------------------------------
(* The LZSS decompressor.  Sizes and cursors are u32; here a u32 value v   *)
(* is the integer v when v < 2^31 and v - 2^32 otherwise, so that sums     *)
(* and differences wrap by themselves and comparisons are made unsigned.   *)

ToS32(a) == IF a[1] < 2^15 THEN a[1] * W16 + a[2] ELSE (a[1] - W16) * W16 + a[2]

ULess(a, b) == IF (a < 0) = (b < 0) THEN a < b ELSE b < 0

\* the output buffer: its size and the bytes written after the initial
\* memset and memcpy, which leave compressed[i] at i < compressed_size and 0 above
BufferByte(compressed, w, i) ==
    IF i \in DOMAIN w THEN w[i]
    ELSE IF 0 <= i /\ i < Len(compressed) THEN compressed[i + 1]
    ELSE 0

BufferPut(w, i, v) == (i :> v) @@ w

\* u32 offset_size = *(u32*)(buffer + size - 4); return offset_size + size;
\* None when the 4 bytes do not lie inside the buffer
LZSS_GetDecompressedSize(buffer, size) ==
    IF size < 4 THEN None
    ELSE LET offset_size == <<buffer[size] * 256 + buffer[size - 1],
                              buffer[size - 2] * 256 + buffer[size - 3]>>
         IN  Some(U32Add(offset_size, U32(size)))

\* an access to compressed[index] or decompressed[index], as the run records it
Access(buffer, mode, index) ==
    [ev |-> "Access", buffer |-> buffer, mode |-> mode, index |-> index]

\* the copy loop of a back-reference (lines 92-99)
RECURSIVE LZSS_CopySegment(_, _, _, _, _, _)
LZSS_CopySegment(compressed, dsize, st, segment_offset, segment_size, j) ==
    IF j = segment_size THEN [st EXCEPT !.status = "run"]
    ELSE IF ~ULess(st.out + segment_offset, dsize) THEN [st EXCEPT !.status = "false"]
    ELSE LET data == BufferByte(compressed, st.w, st.out + segment_offset)
         IN  LZSS_CopySegment(compressed, dsize,
                              [st EXCEPT !.out = @ - 1, !.w = BufferPut(@, st.out - 1, data),
                                         !.acc = @ \o <<Access("decompressed", "read",
                                                               st.out + segment_offset),
                                                        Access("decompressed", "write",
                                                               st.out - 1)>>],
                              segment_offset, segment_size, j + 1)

\* one symbol of the for loop (lines 77-106), control bit 0x80 deciding
LZSS_Symbol(compressed, dsize, st, control) ==
    IF control >= 128 THEN
        IF ULess(st.index, 2) THEN [st EXCEPT !.status = "false"]
        ELSE
            LET index == st.index - 2
                read == [st EXCEPT !.index = index,
                                   !.acc = @ \o <<Access("compressed", "read", index),
                                                  Access("compressed", "read", index + 1)>>]
            IN
            IF index < 0 \/ index + 1 >= Len(compressed) THEN [read EXCEPT !.status = "ub"]
            ELSE
                LET token == compressed[index + 1] + 256 * compressed[index + 2]
                    segment_size == ((token \div 4096) % 16) + 3
                    segment_offset == (token % 4096) + 2
                IN
                IF ULess(st.out, segment_size) THEN [read EXCEPT !.status = "false"]
                ELSE LZSS_CopySegment(compressed, dsize, read,
                                      segment_offset, segment_size, 0)
    ELSE
        IF ULess(st.out, 1) THEN [st EXCEPT !.status = "false"]
        ELSE IF st.index - 1 < 0 \/ st.index - 1 >= Len(compressed)
        THEN [st EXCEPT !.status = "ub",
                        !.acc = Append(@, Access("compressed", "read", st.index - 1))]
        ELSE [st EXCEPT !.index = @ - 1, !.out = @ - 1,
                        !.w = BufferPut(@, st.out - 1, compressed[st.index]),
                        !.acc = @ \o <<Access("compressed", "read", st.index - 1),
                                       Access("decompressed", "write", st.out - 1)>>]

\* the while loop (line 66) with its for loop (line 69); i = 8 outside the for
RECURSIVE LZSS_Loop(_, _, _, _, _, _)
LZSS_Loop(compressed, dsize, stop_index, st, control, i) ==
    IF st.status # "run" THEN st
    ELSE IF i = 8 THEN
        IF ~ULess(stop_index, st.index) THEN [st EXCEPT !.status = "true"]
        ELSE IF st.index - 1 < 0 \/ st.index - 1 >= Len(compressed)
        THEN [st EXCEPT !.status = "ub",
                        !.acc = Append(@, Access("compressed", "read", st.index - 1))]
        ELSE LZSS_Loop(compressed, dsize, stop_index,
                       [st EXCEPT !.index = @ - 1,
                                  !.acc = Append(@, Access("compressed", "read", st.index - 1))],
                       compressed[st.index], 0)
    ELSE IF ~ULess(stop_index, st.index) \/ st.index = 0 \/ st.out = 0
    THEN LZSS_Loop(compressed, dsize, stop_index, st, control, 8)
    ELSE LZSS_Loop(compressed, dsize, stop_index,
                   LZSS_Symbol(compressed, dsize, st, control), (control * 2) % 256, i + 1)

\* the stop index and the first read index the footer gives (lines 57-61)
LZSS_StopIndex(compressed, compressed_size) ==
    compressed_size - (compressed[compressed_size - 7] + 256 * compressed[compressed_size - 6]
                       + 65536 * compressed[compressed_size - 5])

LZSS_StartIndex(compressed, compressed_size) ==
    compressed_size - compressed[compressed_size - 4]

\* returns [status, index, out, w, acc]: status "true" or "false" as the
\* function returns, "ub" when it reads or writes outside a buffer; acc lists
\* the accesses to the stream and to the output after the initial copy, and
\* the access outside a buffer if there was one
LZSS_Decompress(compressed, compressed_size, decompressed_size) ==
    LET dsize == ToS32(decompressed_size)
        start == [status |-> "run", index |-> 0, out |-> dsize, w |-> <<>>, acc |-> <<>>]
    IN
    IF compressed_size < 8
    THEN [start EXCEPT !.status = "ub",
                       !.acc = <<Access("compressed", "read", compressed_size - 8)>>]
    ELSE IF ULess(dsize, compressed_size)
    THEN [start EXCEPT !.status = "ub", !.acc = <<Access("decompressed", "write", dsize)>>]
    ELSE LZSS_Loop(compressed, dsize, LZSS_StopIndex(compressed, compressed_size),
                   [start EXCEPT !.index = LZSS_StartIndex(compressed, compressed_size)], 0, 8)

----------------------------------------------------------------------------
(* AppLoader_NCCH::LoadSectionExeFS *)

\* C strings are sequences of nonzero character codes
Str_code == <<46, 99, 111, 100, 101>>
Str_icon == <<105, 99, 111, 110>>
Str_banner == <<98, 97, 110, 110, 101, 114>>
Str_logo == <<108, 111, 103, 111>>

LE32(n) == <<n % 256, (n \div 256) % 256, (n \div 65536) % 256, n \div 16777216>>

\* the 16 bytes of a section header as they lie in memory
SectionBytes(sec) == sec.name \o LE32(sec.offset) \o LE32(sec.size)

RECURSIVE TakeCString(_, _)
TakeCString(bytes, k) ==
    IF k > Len(bytes) \/ bytes[k] = 0 THEN <<>>
    ELSE <<bytes[k]>> \o TakeCString(bytes, k + 1)

\* the string strcmp sees at section.name: the bytes up to the first NUL,
\* which an 8-character name leaves to the fields that follow it
RECURSIVE CStringAtSection(_, _)
CStringAtSection(h, i) ==
    LET str == TakeCString(SectionBytes(h[i]), 1)
    IN  IF Len(str) < SectionHeaderSize \/ i = kMaxSections THEN str
        ELSE str \o CStringAtSection(h, i + 1)

\* strcmp(section.name, name) == 0
SectionNameIs(h, i, name) == CStringAtSection(h, i) = name

\* the sections the loop of line 212 visits before it returns: the first match
MatchingSections(h, name) == {i \in 1..kMaxSections : SectionNameIs(h, i, name)}

FirstOf(S) == CHOOSE i \in S : \A j \in S : i <= j

\* a byte buffer (std::vector<u8>): its size and its bytes, indexed from 0;
\* bytes not listed are zero
Buffer(bytes) == [size |-> Len(bytes), w |-> [i \in 0..(Len(bytes) - 1) |-> bytes[i + 1]]]

\* the buffer LZSS_Decompress leaves
DecompressedBuffer(compressed, dsize, w) ==
    [size |-> dsize,
     w |-> [i \in (DOMAIN w) \cup {j \in 0..(Len(compressed) - 1) : ULess(j, dsize)} |->
               BufferByte(compressed, w, i)]]



\* file.ReadBytes(buffer, size) at the file position: the bytes delivered,
\* in a zeroed buffer of size bytes
ReadBytes_section(m, size) ==
    LET pos == m.self.file_pos
        got == ReadCount(pos, size)
        stored == BytesAt(pos, size)
    IN  [m |-> Event([m EXCEPT !.self.file_pos = WideAdd(pos, U32(got))],
                     [ev |-> "Read", what |-> "section", pos |-> pos, got |-> got]),
         got |-> got,
         bytes |-> [j \in 1..size |-> IF j <= got THEN stored[j] ELSE 0]]

\* lines 236-241 and 257-262: the context, if there is one, decrypts the bytes
DecryptSection(rd, aesctx, section) ==
    IF Has(aesctx)
    THEN [m |-> Event(rd.m, [ev |-> "Decrypt", what |-> "section",
                             key |-> Val(aesctx).key, ctr |-> Val(aesctx).ctr,
                             seek |-> section.offset + sizeof_ExeFs_Header]),
          bytes |-> ProcessBytes(Val(aesctx), section.offset + sizeof_ExeFs_Header, rd.bytes)]
    ELSE [m |-> rd.m, bytes |-> rd.bytes]

\* the call as LZSS_Decompress leaves it (lines 245-247)
Decompressed(m, status, temp_buffer, decompressed_size, w) ==
    [m |-> m, res |-> IF status = "false" THEN "ErrorInvalidFormat" ELSE "Success",
     out |-> Some(DecompressedBuffer(temp_buffer, decompressed_size, w))]

\* the call's log with the accesses of the decompressor
Accessed(m, acc) == [m EXCEPT !.log = @ \o acc]

\* what LZSS_Decompress did decides; an access outside the buffers is
\* undefined behaviour: the call may crash, or go on and return either way
DecompressionOutcomes(m, st, temp_buffer, decompressed_size) ==
    IF st.status = "ub"
    THEN {[m |-> Accessed(m, st.acc), res |-> "Aborted", out |-> None]}
         \cup {Decompressed(Accessed(m, st.acc), status, temp_buffer, decompressed_size,
                             st.w) : status \in {"false", "true"}}
    ELSE {Decompressed(Accessed(m, st.acc), st.status, temp_buffer, decompressed_size, st.w)}

\* lines 244-247, the size known
DecompressTo(d, size, decompressed_size) ==
    IF Has(decompressed_size)
    THEN DecompressionOutcomes(
             Event(d.m, [ev |-> "LZSS_Decompress"]),
             LZSS_Decompress(d.bytes, size, Val(decompressed_size)), d.bytes,
             ToS32(Val(decompressed_size)))
    ELSE DecompressionOutcomes(
             Event(d.m, [ev |-> "LZSS_Decompress"]),
             [status |-> "ub", index |-> 0, out |-> 0, w |-> <<>>,
              acc |-> <<Access("compressed", "read", size - 4)>>], d.bytes, 0)

\* lines 243-248: the .code section is decompressed
Decompress(d, size) == DecompressTo(d, size, LZSS_GetDecompressedSize(d.bytes, size))

\* lines 233-248: the compressed bytes are read, decrypted and decompressed
CompressedCode(rd, aesctx, section) ==
    IF rd.got # section.size THEN {[m |-> rd.m, res |-> "Error", out |-> None]}
    ELSE Decompress(DecryptSection(rd, aesctx, section), section.size)

\* lines 224-249: the compressed .code section; the allocation may fail
ReadCompressedCode(m, section) ==
    {[m |-> m, res |-> "ErrorMemoryAllocationFailed", out |-> None]}
    \cup CompressedCode(ReadBytes_section(m, section.size), m.self.exerfs_code_aes, section)

\* a loader that decrypts every uncompressed section with the ExeFS context
SectionContext_HeaderContext(s, h, i) == s.exefs_aes

\* the context an uncompressed section is decrypted with (line 256)
SectionContext(s, h, i) ==
    IF SectionNameIs(h, i, Str_code) THEN s.exerfs_code_aes ELSE s.exefs_aes

\* the caller's buffer as a section read leaves it
Output(d, res) == [m |-> d.m, res |-> res, out |-> Some(Buffer(d.bytes))]

\* lines 252-262: the bytes are read into the resized buffer and decrypted
PlainSection(rd, aesctx, section) ==
    IF rd.got # section.size THEN Output(rd, "Error")
    ELSE Output(DecryptSection(rd, aesctx, section), "Success")

\* lines 250-263: an uncompressed section
ReadPlainSection(m, i) ==
    PlainSection(ReadBytes_section(m, m.self.exefs_header[i].size),
                 SectionContext(m.self, m.self.exefs_header, i), m.self.exefs_header[i])

\* file.Seek(section_offset, SEEK_SET) of lines 220-222
SeekSection(m, i) ==
    Seek(Event(m, [ev |-> "Match", section |-> i]),
         WideAdd(WideAdd(U32Add(U32(m.self.exefs_header[i].offset), m.self.exefs_offset),
                         U32(sizeof_ExeFs_Header)),
                 m.self.ncch_offset))

\* lines 216-264: what the loop does for a name that section i matches; the
\* set of the ways the call can end
ReadSection(m, i) ==
    IF SectionNameIs(m.self.exefs_header, i, Str_code) /\ m.self.is_compressed
    THEN ReadCompressedCode(SeekSection(m, i), m.self.exefs_header[i])
    ELSE {ReadPlainSection(SeekSection(m, i), i)}

\* lines 210-267: the loop over the section table
FindSection(m, found) ==
    IF found = {} THEN {[m |-> m, res |-> "ErrorNotUsed", out |-> None]}
    ELSE ReadSection(m, FirstOf(found))

\* lines 206-267, LoadExeFS called
LoadedSectionExeFS(r, name) ==
    IF r.res # "Success" THEN {[m |-> r.m, res |-> r.res, out |-> None]}
    ELSE FindSection(r.m, MatchingSections(r.m.self.exefs_header, name))

\* AppLoader_NCCH::LoadSectionExeFS (lines 202-268): the ways the call can end
LoadSectionExeFS(m, name) ==
    IF ~file.open THEN {[m |-> m, res |-> "Error", out |-> None]}
    ELSE LoadedSectionExeFS(LoadExeFS(m), name)

ReadCode(m) == LoadSectionExeFS(m, Str_code)
ReadIcon(m) == LoadSectionExeFS(m, Str_icon)

----------------------------------------------------------------------------
(* The other public methods *)

BufferAt(buffer, i) == IF i \in DOMAIN buffer.w THEN buffer.w[i] ELSE 0

\* (bss_size + 0xFFF) & ~0xFFF
PageAlign(n) == ((n + 4095) \div 4096) * 4096

\* lines 150-198: the process is created from the code read
CreateProcess(r) ==
    IF r.res = "Aborted" THEN Ret(r.m, "Aborted")
    ELSE IF r.res = "Success" THEN
        LET x == r.m.self.exheader_header
        IN  Ret(Event([r.m EXCEPT !.process =
                          Some([program_id |-> r.m.self.ncch_header.program_id,
                                entrypoint |-> x.text_address,
                                memory |-> [Val(r.out) EXCEPT
                                               !.size = @ + PageAlign(x.bss_size)],
                                resource_limit_category |-> x.resource_limit_category,
                                ideal_processor |-> x.flags0 % 4,
                                priority |-> x.priority,
                                stack_size |-> x.stack_size])],
                      [ev |-> "Process::Create"]),
                "Success")
    ELSE Ret(r.m, "Error")

\* AppLoader_NCCH::LoadExec (lines 142-200)
LoadExec(m) ==
    IF ~m.self.is_loaded THEN {Ret(m, "ErrorNotLoaded")}
    ELSE {CreateProcess(r) : r \in ReadCode(m)}

sizeof_SMDH == 14016
SMDH_region_lockout == 8216
REGION_COUNT == 7

\* the regions whose bit is set in smdh.region_lockout (lines 458-466)
LockoutRegions(buffer) ==
    {b \in 0..(REGION_COUNT - 1) : BitSet(BufferAt(buffer, SMDH_region_lockout), b)}

\* lines 455-467: the first region of the icon's lockout mask is preferred
SetPreferredRegion(r) ==
    IF r.res = "Aborted" THEN Ret(r.m, "Aborted")
    ELSE IF r.res = "Success" /\ Val(r.out).size >= sizeof_SMDH
            /\ LockoutRegions(Val(r.out)) # {}
    THEN Ret([r.m EXCEPT !.region = Some(FirstOf(LockoutRegions(Val(r.out))))], "Success")
    ELSE Ret(r.m, "Success")

\* AppLoader_NCCH::ParseRegionLockoutInfo (lines 453-468); the function returns
\* nothing: the status tells a crash from a return
ParseRegionLockoutInfo(m) == {SetPreferredRegion(r) : r \in ReadIcon(m)}

\* lines 478-484: the program id is reported, the loader is marked loaded
MarkLoaded(m) ==
    [Event(m, [ev |-> "Telemetry", program_id |-> m.self.ncch_header.program_id])
     EXCEPT !.self.is_loaded = TRUE]

\* lines 487-495, LoadExec called
RegisterArchive(e) ==
    IF e.res # "Success" THEN {e}
    ELSE ParseRegionLockoutInfo(Event([e.m EXCEPT !.archives = @ + 1],
                                      [ev |-> "RegisterArchiveType"]))

\* a loader that marks itself loaded whatever LoadExeFS returned
LoadProcess_Regardless(r) == UNION {RegisterArchive(e) : e \in LoadExec(MarkLoaded(r.m))}

\* lines 475-495, LoadExeFS called
LoadProcess(r) ==
    IF r.res # "Success" THEN {r}
    ELSE UNION {RegisterArchive(e) : e \in LoadExec(MarkLoaded(r.m))}

\* a loader without the is_loaded test of line 471
Load_Unguarded(m) == LoadProcess(LoadExeFS(m))

\* AppLoader_NCCH::Load (lines 470-496): the ways the call can end
Load(m) ==
    IF m.self.is_loaded THEN {Ret(m, "ErrorAlreadyLoaded")}
    ELSE LoadProcess(LoadExeFS(m))

\* lines 131-139, LoadExeFS called if the loader is not loaded
SystemMode(r) ==
    IF r.res # "Success" THEN [m |-> r.m, res |-> r.res, out |-> None]
    ELSE [m |-> r.m, res |-> "Success",
          out |-> Some((r.m.self.exheader_header.flags0 \div 16) % 16)]

\* AppLoader_NCCH::LoadKernelSystemMode (lines 130-140)
LoadKernelSystemMode(m) ==
    SystemMode(IF ~m.self.is_loaded THEN LoadExeFS(m) ELSE Ret(m, "Success"))

\* lines 518-523, LoadExeFS called
ProgramId(r) ==
    IF r.res # "Success" THEN [m |-> r.m, res |-> r.res, out |-> None]
    ELSE [m |-> r.m, res |-> "Success", out |-> Some(r.m.self.ncch_header.program_id)]

\* AppLoader_NCCH::ReadProgramId (lines 514-524)
ReadProgramId(m) ==
    IF ~file.open THEN [m |-> m, res |-> "Error", out |-> None]
    ELSE ProgramId(LoadExeFS(m))

\* lines 532-550: the region of the RomFS; reopening the file may fail
LocateRomFS(m, romfs_offset, romfs_size) ==
    IF WideLess(U32(file.size), U32Add(romfs_offset, romfs_size))
    THEN {[m |-> m, res |-> "Error", out |-> None]}
    ELSE {[m |-> Event(m, [ev |-> "Reopen", ok |-> FALSE]), res |-> "Error", out |-> None],
          [m |-> Event(m, [ev |-> "Reopen", ok |-> TRUE]), res |-> "Success",
           out |-> Some([offset |-> romfs_offset, size |-> romfs_size])]}

\* AppLoader_NCCH::ReadRomFS (lines 526-554): the ways the call can end
ReadRomFS(m) ==
    IF ~file.open THEN {[m |-> m, res |-> "Error", out |-> None]}
    ELSE IF m.self.ncch_header.romfs_offset # U32(0) /\ m.self.ncch_header.romfs_size # U32(0)
    THEN LocateRomFS(m,
                     U32Add(U32Add(m.self.ncch_offset,
                                   U32Mul(m.self.ncch_header.romfs_offset, kBlockSize)),
                            U32(romfs_inner_header)),
                     U32Sub(U32Mul(m.self.ncch_header.romfs_size, kBlockSize),
                            U32(romfs_inner_header)))
    ELSE {[m |-> m, res |-> "ErrorNotUsed", out |-> None]}

\* AppLoader_NCCH::IdentifyType (lines 115-128), on the loader's file
IdentifyType(m) ==
    LET m1 == Seek(m, U32(256))
        got == ReadCount(U32(256), 4)
        magic == ObjectAt(U32(0), "ncch", ZeroNcchHeader).magic
        m2 == Event([m1 EXCEPT !.self.file_pos = WideAdd(U32(256), U32(got))],
                    [ev |-> "Read", what |-> "magic", pos |-> U32(256), got |-> got])
    IN  IF got # 4 THEN Ret(m2, "FileType::Error")
        ELSE IF magic = MakeMagic("N", "C", "S", "D") THEN Ret(m2, "FileType::CCI")
        ELSE IF magic = MakeMagic("N", "C", "C", "H") THEN Ret(m2, "FileType::CXI")
        ELSE Ret(m2, "FileType::Error")

----------------------------------------------------------------------------
(* The input files *)

Pad8(str) == [j \in 1..8 |-> IF j <= Len(str) THEN str[j] ELSE 0]

Str_8chars == <<97, 98, 99, 100, 101, 102, 103, 104>>

\* the names of the populated slots, in table order
SlotNames ==
    <<Str_code, Str_icon, Str_banner, Str_logo, <<97>>, <<98, 98>>, <<99, 99, 99>>,
      Str_8chars>>

\* a compressed .code body: three literals and the 8-byte footer
\* (stop index 0, start index 4, 2 bytes longer when decompressed)
CompressedBody == <<30, 20, 10, 0, 12, 0, 0, 8, 2, 0, 0, 0>>

\* section bodies: slot i holds BodyLen bytes at offset BodyLen * (i - 1)
BodyLen == Len(CompressedBody)

PlainBody(i) == [j \in 1..BodyLen |-> 16 * i + j]

Body(i, compressed) == IF i = 1 /\ compressed THEN CompressedBody ELSE PlainBody(i)

\* an ExeFS header with the first k slots populated
PlainExeFsHeader(k) ==
    [i \in 1..kMaxSections |->
        IF i <= k THEN [name |-> Pad8(SlotNames[i]), offset |-> BodyLen * (i - 1),
                        size |-> BodyLen]
        ELSE ZeroSection]

PlainExHeader(compressed) ==
    [flag |-> IF compressed THEN 1 ELSE 0, text_address |-> 16, code_size |-> BodyLen,
     stack_size |-> 8, bss_size |-> 2, program_id |-> 5, core_version |-> 2,
     flags0 |-> 33, priority |-> 48, resource_limit_category |-> 1]

Signature == [i \in 1..256 |-> (3 * i) % 256]

PartitionId == <<17, 34, 51, 68, 85, 102, 119, 136>>

NcchHeader(magic, version, flags7, flags3, romfs) ==
    [signature |-> Signature, magic |-> magic, partition_id |-> PartitionId,
     version |-> version, program_id |-> 5,
     flags |-> [i \in 1..8 |-> IF i = 8 THEN flags7 ELSE IF i = 4 THEN flags3 ELSE 0],
     exefs_offset |-> U32(5), exefs_size |-> U32(2),
     romfs_offset |-> U32(romfs[1]), romfs_size |-> U32(romfs[2])]

OtherKey == [i \in 1..16 |-> 7]

\* the keys a file's regions are encrypted with: <<headers, .code>>; None if plain
FileKeys(h, enc) ==
    LET key_y == SubSeq(h.signature, 1, 16)
        base == NormalKeyOf("NCCH", key_y)
    IN  CASE enc = "plain" -> None
          [] enc = "zero" -> Some(<<Zeros16, Zeros16>>)
          [] enc = "other" -> Some(<<OtherKey, OtherKey>>)
          [] enc = "slot" ->
                Some(<<base, IF h.flags[4] \in SlotMethods
                             THEN NormalKeyOf(CryptoMethodSlot(h.flags[4]), key_y)
                             ELSE base>>)

\* the counters a file's regions are encrypted with
FileCounters(h) ==
    Val(VersionCounters(IF h.version \in {0, 1, 2} THEN h ELSE [h EXCEPT !.version = 0]))

\* the partition: its objects by offset from the partition's start
Partition(h, enc, k, compressed) ==
    LET keys == FileKeys(h, enc)
        c == FileCounters(h)
        exh == PlainExHeader(compressed)
        efs == PlainExeFsHeader(k)
        exefs_pos == kBlockSize * 5
        body_pos(i) == exefs_pos + sizeof_ExeFs_Header + efs[i].offset
        ctx(i) == IF i = 1 THEN [key |-> Val(keys)[2], ctr |-> c.exerfs_code_aes.ctr]
                  ELSE [key |-> Val(keys)[1], ctr |-> c.exefs_aes.ctr]
        obj(q) ==
            IF q = 0 THEN [kind |-> "ncch", v |-> h]
            ELSE IF q = sizeof_NCCH_Header THEN
                [kind |-> "exheader",
                 v |-> IF Has(keys)
                       THEN ProcessExHeader([key |-> Val(keys)[1], ctr |-> c.exheader_aes.ctr], exh)
                       ELSE exh]
            ELSE IF q = exefs_pos THEN
                [kind |-> "exefs",
                 v |-> IF Has(keys)
                       THEN ProcessExeFsHeader([key |-> Val(keys)[1], ctr |-> c.exefs_aes.ctr], efs)
                       ELSE efs]
            ELSE LET i == CHOOSE n \in 1..k : body_pos(n) = q
                 IN  [kind |-> "bytes",
                      v |-> IF Has(keys)
                            THEN ProcessBytes(ctx(i), efs[i].offset + sizeof_ExeFs_Header,
                                              Body(i, compressed))
                            ELSE Body(i, compressed)]
    IN  [q \in {0, sizeof_NCCH_Header, exefs_pos} \cup {body_pos(i) : i \in 1..k} |-> obj(q)]

PartitionSize(k) == kBlockSize * 5 + sizeof_ExeFs_Header + BodyLen * k

\* a bare partition container (CXI)
NcchFile(h, enc, k, compressed, cut) ==
    [open |-> TRUE, size |-> PartitionSize(k) - cut, at |-> Partition(h, enc, k, compressed)]

\* a disc container (CCI): an NCSD header, the partition at 0x4000
NcsdFile(h, enc, k, compressed, cut) ==
    LET part == Partition(h, enc, k, compressed)
    IN  [open |-> TRUE, size |-> NCSD_ncch_offset + PartitionSize(k) - cut,
         at |-> [q \in {0} \cup {NCSD_ncch_offset + p : p \in DOMAIN part} |->
                    IF q = 0
                    THEN [kind |-> "ncch",
                          v |-> [ZeroNcchHeader EXCEPT !.magic = MakeMagic("N", "C", "S", "D")]]
                    ELSE part[q - NCSD_ncch_offset]]]

MaxVersion == 3
Versions == 0..MaxVersion
Flags7 == {0, 1, 32, 33}
Flags3 == {0, 1, 2, 10, 11}
NoRomFS == <<0, 0>>

\* the RomFS region of the containers that hold one, in media units
RomFSRegion == <<8, 9>>
Encryptions == {"zero", "slot", "other"}

\* encrypted containers: every combination of version, crypto flags and the
\* key the file was really encrypted with
CryptoFiles ==
    {NcchFile(NcchHeader(MakeMagic("N", "C", "C", "H"), v, f7, f3, NoRomFS), enc, 2, FALSE, 0) :
        v \in Versions, f7 \in Flags7, f3 \in Flags3, enc \in Encryptions}

\* unencrypted containers whose header carries crypto flags all the same
PlainFiles ==
    {NcchFile(NcchHeader(MakeMagic("N", "C", "C", "H"), v, f7, f3, NoRomFS), "plain", 2, FALSE, 0) :
        v \in Versions, f7 \in Flags7, f3 \in {0, 2}}

\* containers the key file decides about
KeyedFiles ==
    {NcchFile(NcchHeader(MakeMagic("N", "C", "C", "H"), 0, 0, f3, NoRomFS), "slot", 2, FALSE, 0) :
        f3 \in Flags3}
    \cup {NcchFile(NcchHeader(MakeMagic("N", "C", "C", "H"), 2, 1, f3, NoRomFS), "zero", 2, FALSE, 0) :
             f3 \in {0, 2}}

\* truncated and nested containers: cut bytes are missing at the end
Cuts == {0, 5, BodyLen * 2 + 40, sizeof_ExeFs_Header + BodyLen * 2 + 100,
         PartitionSize(2) - 300, PartitionSize(2) - 100}

Magics == {MakeMagic("N", "C", "C", "H"), MakeMagic("N", "C", "S", "D"),
           MakeMagic("E", "L", "F", "0")}

ContainerFiles ==
    UNION {
        LET h == NcchHeader(MakeMagic("N", "C", "C", "H"), 0, IF enc = "zero" THEN 1 ELSE 0, 0,
                            RomFSRegion)
        IN  {NcchFile([h EXCEPT !.magic = magic], enc, 2, compressed, cut),
             NcsdFile([h EXCEPT !.magic = magic], enc, 2, compressed, cut)} :
        magic \in Magics, enc \in {"plain", "zero"}, compressed \in BOOLEAN, cut \in Cuts}

\* RomFS regions shorter than the inner header, and beyond 4 GiB
OddRomFSRegions == {<<1, 1>>, <<8388609, 9>>}

\* unencrypted containers with a RomFS: whole, or with its last bytes
\* missing; and those whose header declares an odd region
RomFSFiles ==
    LET h == NcchHeader(MakeMagic("N", "C", "C", "H"), 2, 0, 0, RomFSRegion)
        size == kBlockSize * (RomFSRegion[1] + RomFSRegion[2])
    IN  UNION {{[NcchFile(h, "plain", 2, FALSE, 0) EXCEPT !.size = size - cut],
                [NcsdFile(h, "plain", 2, FALSE, 0) EXCEPT
                    !.size = NCSD_ncch_offset + size - cut]} : cut \in {0, 5}}
        \cup {[NcchFile([h EXCEPT !.romfs_offset = U32(r[1]), !.romfs_size = U32(r[2])],
                         "plain", 2, FALSE, 0) EXCEPT !.size = size] : r \in OddRomFSRegions}

\* version-1 containers with a RomFS, encrypted with the fixed key
CounterFiles ==
    {NcchFile(NcchHeader(MakeMagic("N", "C", "C", "H"), 1, 1, 0, r), "zero", 2, FALSE, 0) :
        r \in {RomFSRegion} \cup OddRomFSRegions}

\* a container with a compressed .code section, encrypted with slot keys
CompressedCryptoFiles ==
    {NcchFile(NcchHeader(MakeMagic("N", "C", "C", "H"), 2, 0, 10, NoRomFS), "slot", 2, TRUE, 0)}

\* unencrypted containers with k populated section slots
SectionFiles ==
    {NcchFile(NcchHeader(MakeMagic("N", "C", "C", "H"), 2, 0, 0, NoRomFS), "plain", k, FALSE, 0) :
        k \in 0..kMaxSections}

ClosedFile == [open |-> FALSE, size |-> 0, at |-> <<>>]

\* the key files: all KeyX present, none, only the base slot's
KeyFiles == {KeySlotID, {}, {"NCCH"}}

\* ncch_header has no initializer: what it holds before the first read
UninitializedHeaders ==
    {ZeroNcchHeader, [ZeroNcchHeader EXCEPT !.romfs_offset = U32(1), !.romfs_size = U32(9)]}

\* the loaders the model starts from: a file, a key file, the header garbage
Configurations ==
    {[file |-> f, keyfile |-> KeySlotID, header |-> ZeroNcchHeader] :
        f \in CryptoFiles \cup PlainFiles \cup ContainerFiles \cup RomFSFiles
                  \cup CounterFiles \cup CompressedCryptoFiles}
    \cup {[file |-> f, keyfile |-> k, header |-> ZeroNcchHeader] :
             f \in KeyedFiles, k \in KeyFiles}
    \cup {[file |-> f, keyfile |-> KeySlotID, header |-> h] :
             f \in SectionFiles \cup {ClosedFile}, h \in UninitializedHeaders}

\* the names sections are asked for
RequestedNames == {<<>>, Str_code, Str_icon, Str_logo, <<120>>, Str_8chars}

----------------------------------------------------------------------------
(* The state machine *)

NewLoader(h) ==
    [is_loaded |-> FALSE, is_exefs_loaded |-> FALSE, is_compressed |-> FALSE,
     entry_point |-> 0, code_size |-> 0, stack_size |-> 0, bss_size |-> 0,
     core_version |-> 0, priority |-> 0, resource_limit_category |-> 0,
     ncch_offset |-> U32(0), exefs_offset |-> U32(0),
     ncch_header |-> h, exheader_header |-> ZeroExHeader, exefs_header |-> ZeroExeFsHeader,
     exefs_aes |-> None, exerfs_code_aes |-> None, romfs_aes |-> None,
     file_pos |-> U32(0)]

InitWith(configurations) ==
    \E c \in configurations :
        /\ file = c.file
        /\ keyfile = c.keyfile
        /\ self = NewLoader(c.header)
        /\ aes = [initialized |-> FALSE, key_x |-> {}, key_y |-> [s \in KeySlotID |-> None]]
        /\ process = None
        /\ archives = 0
        /\ region = None
        /\ op = <<"new">>
        /\ result = "None"
        /\ out = None
        /\ log = <<>>
        /\ past = {}

Init == InitWith(Configurations)

\* the machine a call starts from
Machine ==
    [self |-> self, aes |-> aes, process |-> process, archives |-> archives,
     region |-> region, log |-> <<>>]

\* a call that ran into undefined behaviour and crashed ends the program
Alive == result # "Aborted"

\* what a returning call adds to the record of the past: a direct call that
\* returned Success, an extended header that did not decrypt
Remembered(call, r) ==
    (IF r.res = "Success" /\ call \in {<<"Load">>, <<"LoadExeFS">>} THEN {call[1]} ELSE {})
    \cup (IF \E i \in DOMAIN r.m.log :
                 /\ r.m.log[i].ev = "Decrypt"
                 /\ r.m.log[i].what = "exheader_header"
                 /\ IsEncrypted(r.m.self)
          THEN {"decryption failed"} ELSE {})

\* a call returns: its effects are committed
Return(call, r, o) ==
    /\ self' = r.m.self
    /\ aes' = r.m.aes
    /\ process' = r.m.process
    /\ archives' = r.m.archives
    /\ region' = r.m.region
    /\ log' = r.m.log
    /\ op' = call
    /\ result' = r.res
    /\ out' = o
    /\ past' = past \cup Remembered(call, r)
    /\ UNCHANGED <<file, keyfile>>

\* a call with an output argument returns
ReturnOut(call, r) == Return(call, r, r.out)

DoIdentifyType ==
    /\ Alive
    /\ Return(<<"IdentifyType">>, IdentifyType(Machine), None)

DoLoadExeFS ==
    /\ Alive
    /\ Return(<<"LoadExeFS">>, LoadExeFS(Machine), None)

DoLoadSectionExeFS ==
    /\ Alive
    /\ \E name \in RequestedNames :
           \E r \in LoadSectionExeFS(Machine, name) :
               ReturnOut(<<"LoadSectionExeFS", name>>, r)

DoLoadExec ==
    /\ Alive
    /\ \E r \in LoadExec(Machine) : Return(<<"LoadExec">>, r, None)

DoLoad ==
    /\ Alive
    /\ \E r \in Load(Machine) : Return(<<"Load">>, r, None)

DoLoadKernelSystemMode ==
    /\ Alive
    /\ ReturnOut(<<"LoadKernelSystemMode">>, LoadKernelSystemMode(Machine))

DoReadProgramId ==
    /\ Alive
    /\ ReturnOut(<<"ReadProgramId">>, ReadProgramId(Machine))

DoReadRomFS ==
    /\ Alive
    /\ \E r \in ReadRomFS(Machine) : ReturnOut(<<"ReadRomFS">>, r)

Next ==
    \/ DoIdentifyType
    \/ DoLoadExeFS
    \/ DoLoadSectionExeFS
    \/ DoLoadExec
    \/ DoLoad
    \/ DoLoadKernelSystemMode
    \/ DoReadProgramId
    \/ DoReadRomFS

Spec == Init /\ [][Next]_vars

----------------------------------------------------------------------------
(* The decompressor on its own: LZSS_GetDecompressedSize and               *)
(* LZSS_Decompress called as lines 246-248 call them, once, on a buffer.   *)

\* the 8 bytes that end a compressed buffer: the low 24 bits of the first
\* word (distance from the end to the stop index), its high byte (distance
\* from the end to the first read index), and the u32 length difference
Footer(bottom, top, offset_size) ==
    LET v == U32(offset_size)
    IN  <<bottom % 256, (bottom \div 256) % 256, (bottom \div 65536) % 256, top,
          v[2] % 256, v[2] \div 256, v[1] % 256, v[1] \div 256>>

\* the byte sequences over an alphabet of at most a length
RECURSIVE SeqsUpTo(_, _)
SeqsUpTo(alphabet, n) ==
    IF n = 0 THEN {<<>>}
    ELSE LET shorter == SeqsUpTo(alphabet, n - 1)
         IN  shorter \cup {Append(s, b) : s \in shorter, b \in alphabet}

MaxStreamLen == 3

\* stream bytes: literals, flag bytes (0x10: three literals then a
\* back-reference, 0x80: a back-reference first) and token bytes
StreamBytes == {0, 7, 16, 128, 144}

\* streams that hold, from the end: a flag byte, three literals, a token
TokenStreams ==
    {pre \o <<0, hi, 7, 8, 9, flags>> :
        pre \in {<<>>, <<0>>, <<9>>, <<7, 9, 0>>}, hi \in {0, 16, 144}, flags \in {0, 16}}

Streams == SeqsUpTo(StreamBytes, MaxStreamLen) \cup TokenStreams

\* buffers with a footer: the stop index at the start, one byte in, at the
\* footer or beyond the start; the first read at the footer, one byte into
\* it or beyond the start; the output as long, longer or shorter
FootersOf(s) ==
    {Footer(bottom, top, offset_size) :
        bottom \in {8, 300, Len(s) + 8, Len(s) + 7},
        top \in {8, 9, 200},
        offset_size \in {0, 3, -9}}

FooteredBuffers == UNION {{s \o f : f \in FootersOf(s)} : s \in Streams}

\* buffers too short to hold a footer
ShortBuffers == {[i \in 1..n |-> 0] : n \in 0..7}

CompressedBuffers == FooteredBuffers \cup ShortBuffers

\* The reference encoder of the scheme the decompressor reads: the data is
\* encoded from its end; a symbol is a literal or a back-reference of
\* length 3..18 to the bytes raw + 3 positions further on.

\* the len bytes that end at position p (exclusive) repeat those raw + 3 further on
Repeats(data, p, len, raw) ==
    /\ len <= p
    /\ p + raw + 2 < Len(data)
    /\ \A j \in 0..(len - 1) : data[p - j] = data[p - j + raw + 3]

\* the back-references possible at p, as <<len, raw>>
References(data, p) ==
    {t \in (3..18) \X (0..(Len(data) - 3)) : Repeats(data, p, t[1], t[2])}

\* the longest, then nearest
BestReference(refs) ==
    CHOOSE t \in refs : \A u \in refs : u[1] < t[1] \/ (u[1] = t[1] /\ t[2] <= u[2])

\* the symbols in the order the decompressor reads them
RECURSIVE EncodeSymbols(_, _)
EncodeSymbols(data, p) ==
    IF p = 0 THEN <<>>
    ELSE LET refs == References(data, p)
         IN  IF refs = {} THEN <<<<"lit", data[p]>>>> \o EncodeSymbols(data, p - 1)
             ELSE <<<<"ref", BestReference(refs)>>>>
                  \o EncodeSymbols(data, p - BestReference(refs)[1])

\* the flag byte of up to 8 symbols: bit 7 is the first symbol's
RECURSIVE FlagByte(_, _)
FlagByte(symbols, k) ==
    IF k > Len(symbols) \/ k > 8 THEN 0
    ELSE (IF symbols[k][1] = "ref" THEN 2 ^ (8 - k) ELSE 0) + FlagByte(symbols, k + 1)

\* a symbol's bytes in read order; a token lies low byte first in memory
SymbolBytes(symbol) ==
    IF symbol[1] = "lit" THEN <<symbol[2]>>
    ELSE LET token == (symbol[2][1] - 3) * 4096 + symbol[2][2]
         IN  <<token \div 256, token % 256>>

RECURSIVE SymbolsBytes(_, _, _)
SymbolsBytes(symbols, k, last) ==
    IF k > last THEN <<>> ELSE SymbolBytes(symbols[k]) \o SymbolsBytes(symbols, k + 1, last)

\* the stream in read order: flag byte, 8 symbols, flag byte, ...
RECURSIVE ReadOrder(_)
ReadOrder(symbols) ==
    IF symbols = <<>> THEN <<>>
    ELSE LET n == Min(8, Len(symbols))
         IN  <<FlagByte(symbols, 1)>> \o SymbolsBytes(symbols, 1, n)
             \o ReadOrder(SubSeq(symbols, n + 1, Len(symbols)))

Reverse(s) == [i \in 1..Len(s) |-> s[Len(s) + 1 - i]]

\* the compressed buffer: the stream, read from its end, and the footer
LZSS_Encode(data) ==
    LET stream == Reverse(ReadOrder(EncodeSymbols(data, Len(data))))
    IN  stream \o Footer(Len(stream) + 8, 8, Len(data) - (Len(stream) + 8))

MaxPlainLen == 3

\* data of a period: n bytes repeating a pattern
Periodic(pattern, n) == [i \in 1..n |-> pattern[((i - 1) % Len(pattern)) + 1]]

\* the data encoded: every short sequence, and long repetitive ones
Originals ==
    SeqsUpTo({1, 2}, MaxPlainLen)
    \cup {Periodic(pattern, n) : pattern \in {<<1>>, <<1, 2>>, <<1, 2, 2, 3>>},
                                 n \in {16, 20, 24, 27}}

\* a loader that is not used: the decompressor touches none of it
LZSSInit == InitWith({[file |-> ClosedFile, keyfile |-> {}, header |-> ZeroNcchHeader]})

\* lines 246-248 on a buffer
DoLZSS_Decompress ==
    /\ op = <<"new">>
    /\ \E compressed \in CompressedBuffers :
           \E r \in Decompress([m |-> Machine, bytes |-> compressed], Len(compressed)) :
               ReturnOut(<<"LZSS_Decompress", compressed>>, r)

\* the same on the encoding of data
DoRoundTrip ==
    /\ op = <<"new">>
    /\ \E data \in Originals :
           \E r \in Decompress([m |-> Machine, bytes |-> LZSS_Encode(data)],
                               Len(LZSS_Encode(data))) :
               ReturnOut(<<"RoundTrip", data>>, r)

LZSSNext ==
    \/ DoLZSS_Decompress
    \/ DoRoundTrip

LZSSSpec == LZSSInit /\ [][LZSSNext]_vars

----------------------------------------------------------------------------
(* What a state shows: the events of the last call, the container on file *)

KeyStoreCalls == {i \in DOMAIN log : IsKeyStoreEvent(log[i])}

Logged(msg) == \E i \in DOMAIN log : log[i].ev = "LOG_ERROR" /\ log[i].msg = msg

Decrypted(what) == \E i \in DOMAIN log : log[i].ev = "Decrypt" /\ log[i].what = what

WasRead(what) == \E i \in DOMAIN log : log[i].ev = "Read" /\ log[i].what = what

HeaderNames == {"ncch_header", "exheader_header", "exefs_header"}

\* where the file holds its NCCH partition
StoredNcchOffset ==
    IF ObjectAt(U32(0), "ncch", ZeroNcchHeader).magic = MakeMagic("N", "C", "S", "D")
    THEN NCSD_ncch_offset ELSE 0

StoredNcchHeader == ObjectAt(U32(StoredNcchOffset), "ncch", ZeroNcchHeader)

StoredExHeader ==
    ObjectAt(U32(StoredNcchOffset + sizeof_NCCH_Header), "exheader", ZeroExHeader)

\* the file is open and holds an NCCH header and a whole extended header
HeadersReadable ==
    /\ file.open
    /\ file.size >= StoredNcchOffset + sizeof_NCCH_Header + sizeof_ExHeader_Header
    /\ StoredNcchHeader.magic = MakeMagic("N", "C", "C", "H")

\* the file holds a whole ExeFS header where the NCCH header says
ExeFsHeaderReadable ==
    file.size >= StoredNcchOffset + kBlockSize * StoredNcchHeader.exefs_offset[2]
                     + sizeof_ExeFs_Header

\* the extended header on file carries another program id than the NCCH header
EncryptedContainer ==
    HeadersReadable /\ StoredExHeader.program_id # StoredNcchHeader.program_id

UnencryptedContainer ==
    HeadersReadable /\ StoredExHeader.program_id = StoredNcchHeader.program_id

\* the NCCH header on file has bit 0 of flags[7] set
FixedKeyFlag == StoredNcchHeader.flags[8] % 2 = 1

\* the NCCH header on file has bit 5 of flags[7] set
SeedFlag == (StoredNcchHeader.flags[8] \div 32) % 2 = 1

KnownVersion == StoredNcchHeader.version \in {0, 1, 2}

KnownMethod == StoredNcchHeader.flags[4] \in {0} \cup SlotMethods

\* the populated slots of an ExeFS header are its first k, the others are zero
Populated(h) == {i \in 1..kMaxSections : h[i] # ZeroSection}

FirstSlotsPopulated(h) == \E k \in 0..kMaxSections : Populated(h) = 1..k

----------------------------------------------------------------------------
(* The claims *)

\* C1: LoadExeFS on an encrypted container of version 0, 1 or 2 whose
\* crypto-method byte flags[3] is not 0, 1, 0x0A or 0x0B fails with
\* ErrorEncrypted and has made no key-store call (InitKeys, SetKeyY,
\* IsNormalKeyAvailable, GetNormalKey).
C1_UnknownMethodTouchesNoKey ==
    (op = <<"LoadExeFS">> /\ EncryptedContainer /\ KnownVersion /\ ~KnownMethod)
        => (result = "ErrorEncrypted" /\ KeyStoreCalls = {})

\* C2: LoadExeFS on an encrypted container whose seed-crypto flag
\* (flags[7] & 0x20) is set fails with ErrorEncrypted and the loader never
\* becomes ExeFS-loaded, whatever the fixed-key flag and the method byte.
C2_SeedFlagAlwaysFails ==
    (EncryptedContainer /\ SeedFlag)
        => /\ ~self.is_exefs_loaded
           /\ op = <<"LoadExeFS">> => result = "ErrorEncrypted"

\* a LoadExeFS that succeeded on an encrypted version-1 container
C3_Version1Loaded ==
    /\ op = <<"LoadExeFS">>
    /\ result = "Success"
    /\ EncryptedContainer
    /\ StoredNcchHeader.version = 1

\* C3 as stated: after a successful LoadExeFS on an encrypted version-1
\* container the code-section context equals the ExeFS-header context in key
\* and in counter, for every accepted method byte and for the fixed key.
C3_CodeContextIsHeaderContext ==
    C3_Version1Loaded => self.exerfs_code_aes = self.exefs_aes

\* C3 amended: after a successful LoadExeFS on an encrypted version-1
\* container the code-section context has the counter of the ExeFS-header
\* context for every accepted method byte and for the fixed key; it has its
\* key too for the fixed key and for method 0, while for methods 1, 0x0A and
\* 0x0B it carries the normal key of the method's own slot and the
\* ExeFS-header context that of slot 0x2C.
C3_CodeCounterIsHeaderCounter ==
    C3_Version1Loaded =>
        LET h == self.ncch_header
            code == Val(self.exerfs_code_aes)
            exefs == Val(self.exefs_aes)
            key_y == SubSeq(h.signature, 1, 16)
        IN  /\ code.ctr = exefs.ctr
            /\ (IsFixedKey(h) \/ h.flags[4] = 0) => code.key = exefs.key
            /\ (~IsFixedKey(h) /\ h.flags[4] \in SlotMethods) =>
                   /\ code.key = NormalKeyOf(CryptoMethodSlot(h.flags[4]), key_y)
                   /\ exefs.key = NormalKeyOf("NCCH", key_y)

\* C3's case: version 1 loaded with a method that has a slot of its own
C3_Version1SlotMethodLoaded ==
    /\ C3_Version1Loaded
    /\ ~IsFixedKey(self.ncch_header)
    /\ self.ncch_header.flags[4] = 10
    /\ WasRead("exefs_header")

\* C4: on a container whose extended header on file already carries the NCCH
\* header's program id, no call derives a key: the key store is never
\* called, the ExeFS, code and RomFS contexts stay absent, and neither the
\* extended header, the ExeFS header nor any section is decrypted.
C4_UnencryptedDerivesNoKey ==
    UnencryptedContainer =>
        /\ KeyStoreCalls = {}
        /\ ~aes.initialized
        /\ self.exefs_aes = None
        /\ self.exerfs_code_aes = None
        /\ self.romfs_aes = None
        /\ \A i \in DOMAIN log : log[i].ev # "Decrypt"

\* C4's case: a section read from an unencrypted container, LoadExeFS having
\* read the headers in the same call
C4_UnencryptedSectionRead ==
    /\ UnencryptedContainer
    /\ Len(op) = 2
    /\ result = "Success"
    /\ WasRead("exheader_header")
    /\ WasRead("section")

\* a LoadExeFS on an encrypted container of a known version with the fixed-key flag
C5_FixedKeyCall ==
    /\ op = <<"LoadExeFS">>
    /\ EncryptedContainer
    /\ KnownVersion
    /\ FixedKeyFlag

\* C5: LoadExeFS on an encrypted container of version 0, 1 or 2 with the
\* fixed-key flag set makes no key-store call, decrypts with the all-zero
\* key and leaves the ExeFS, code and RomFS contexts with the all-zero key,
\* and it is the program-id comparison after the decryption that decides:
\* ErrorEncrypted exactly if the ids still differ, otherwise the call goes
\* on to the ExeFS header and succeeds if the file holds all of it;
\* whatever the crypto-method byte.
C5_FixedKeyIsZeroKey ==
    C5_FixedKeyCall =>
        /\ KeyStoreCalls = {}
        /\ \A i \in DOMAIN log : log[i].ev = "Decrypt" => log[i].key = Zeros16
        /\ \A c \in {self.exefs_aes, self.exerfs_code_aes, self.romfs_aes} :
               Has(c) /\ Val(c).key = Zeros16
        /\ result = "ErrorEncrypted" <=> IsEncrypted(self)
        /\ result = "Success" <=> (~IsEncrypted(self) /\ ExeFsHeaderReadable)
        /\ result \in {"ErrorEncrypted", "Success", "Error"}

\* C5's case: the fixed key with a method byte that would need a key slot
C5_FixedKeyLoaded ==
    /\ C5_FixedKeyCall
    /\ StoredNcchHeader.flags[4] = 11
    /\ result = "Success"
    /\ Decrypted("exheader_header")
    /\ Decrypted("exefs_header")

\* C6: LoadExeFS on a container whose NCCH header has a version other than
\* 0, 1 and 2 returns ErrorEncrypted, decrypts nothing, and the loader never
\* becomes ExeFS-loaded.
C6_UnknownVersionRejected ==
    (HeadersReadable /\ ~KnownVersion)
        => /\ ~self.is_exefs_loaded
           /\ op = <<"LoadExeFS">> =>
                  (result = "ErrorEncrypted" /\ \A i \in DOMAIN log : log[i].ev # "Decrypt")

\* the call decrypted the extended header and its program id still differs
\* from the NCCH header's
C7_DecryptionFailed == Decrypted("exheader_header") /\ IsEncrypted(self)

\* C7: a call in which the decrypted extended header's program id still
\* differs from the NCCH header's returns ErrorEncrypted, has neither read
\* nor decrypted the ExeFS header and leaves the loader not ExeFS-loaded;
\* and every section read after such a call fails and returns no bytes.
C7_FailedDecryptionLoadsNothing ==
    [][/\ C7_DecryptionFailed' =>
              /\ result' = "ErrorEncrypted"
              /\ Logged("Cannot decrypt!")'
              /\ ~WasRead("exefs_header")'
              /\ ~Decrypted("exefs_header")'
              /\ ~self'.is_exefs_loaded
       /\ ("decryption failed" \in past /\ op'[1] = "LoadSectionExeFS") =>
              /\ result' = "ErrorEncrypted"
              /\ out' = None
              /\ ~WasRead("section")'
              /\ ~self'.is_exefs_loaded]_vars

\* C7's case: a section read after a LoadExeFS whose decryption failed
C7_SectionReadAfterFailure ==
    /\ "decryption failed" \in past
    /\ op = <<"LoadSectionExeFS", Str_icon>>
    /\ C7_DecryptionFailed

\* C8: once a LoadExeFS has returned Success, a LoadExeFS called directly
\* returns Success, touches neither the file nor the loader (no event, the
\* object unchanged), and a call through Load, LoadSectionExeFS,
\* LoadExec, ReadProgramId or LoadKernelSystemMode reads no header, calls
\* no key store and leaves the headers, the offsets, the contexts and the
\* ExeFS flags unchanged.
C8_LoadExeFSIsIdempotent ==
    [][("LoadExeFS" \in past) =>
           /\ op' = <<"LoadExeFS">> => (result' = "Success" /\ log' = <<>> /\ self' = self)
           /\ \A what \in HeaderNames : ~WasRead(what)' /\ ~Decrypted(what)'
           /\ KeyStoreCalls' = {}
           /\ self'.ncch_header = self.ncch_header
           /\ self'.exheader_header = self.exheader_header
           /\ self'.exefs_header = self.exefs_header
           /\ self'.ncch_offset = self.ncch_offset
           /\ self'.exefs_offset = self.exefs_offset
           /\ self'.exefs_aes = self.exefs_aes
           /\ self'.exerfs_code_aes = self.exerfs_code_aes
           /\ self'.romfs_aes = self.romfs_aes
           /\ self'.is_exefs_loaded
           /\ self'.is_compressed = self.is_compressed]_vars

\* C8's case: LoadExeFS called again on a loaded, encrypted container
C8_SecondLoadExeFS ==
    /\ "LoadExeFS" \in past
    /\ op = <<"LoadExeFS">>
    /\ result = "Success"
    /\ log = <<>>
    /\ EncryptedContainer

\* C9: after a Load() that returned Success every later Load() returns
\* ErrorAlreadyLoaded, creates no process, registers no archive factory and
\* changes nothing of the loader.
C9_SecondLoadIsRefused ==
    [][("Load" \in past /\ op' = <<"Load">>) =>
           /\ result' = "ErrorAlreadyLoaded"
           /\ log' = <<>>
           /\ process' = process
           /\ archives' = archives
           /\ region' = region
           /\ aes' = aes
           /\ self' = self]_vars

\* C9's case: a Load() refused after one that succeeded
C9_LoadRefused ==
    /\ "Load" \in past
    /\ op = <<"Load">>
    /\ result = "ErrorAlreadyLoaded"
    /\ Has(process)
    /\ archives = 1

\* C10: LoadSectionExeFS on a loaded ExeFS header whose first k slots are
\* populated (0 <= k <= 8) and whose other slots are zero, asked for a name
\* of 0 to 8 characters that no populated slot has, returns ErrorNotUsed and
\* matches no slot.
C10_AbsentNameIsNotUsed ==
    (/\ Len(op) = 2
     /\ self.is_exefs_loaded
     /\ FirstSlotsPopulated(self.exefs_header)
     /\ \A i \in Populated(self.exefs_header) : self.exefs_header[i].name # Pad8(op[2]))
        => (result = "ErrorNotUsed" /\ \A i \in DOMAIN log : log[i].ev # "Match")


----------------------------------------------------------------------------
(* The claims about the decompressor, under LZSSSpec *)

\* the state follows a call of the decompressor
LZSS_Called == op[1] \in {"LZSS_Decompress", "RoundTrip"}

\* the buffer the decompressor was called on
LZSS_Input == IF op[1] = "RoundTrip" THEN LZSS_Encode(op[2]) ELSE op[2]

\* the accesses the call made
Accesses == {i \in DOMAIN log : log[i].ev = "Access"}

\* an access inside its buffer: [0, compressed_size), [0, decompressed_size)
InsideBuffer(e) ==
    LET dsize == LZSS_GetDecompressedSize(LZSS_Input, Len(LZSS_Input))
    IN  /\ e.index >= 0
        /\ IF e.buffer = "compressed" THEN e.index < Len(LZSS_Input)
           ELSE Has(dsize) /\ ULess(e.index, ToS32(Val(dsize)))

AllInsideBuffers == \A i \in Accesses : InsideBuffer(log[i])

\* C11: a call of LZSS_GetDecompressedSize and LZSS_Decompress reads the
\* compressed buffer only at indices in [0, compressed_size) and reads and
\* writes the output buffer only at indices in [0, decompressed_size), for
\* every buffer and footer.
C11_AccessesStayInsideBuffers == LZSS_Called => AllInsideBuffers

\* C12: if the write cursor reaches 0 while the read cursor is still above
\* the stop index (input is read after output index 0 was written),
\* LZSS_Decompress returns false.
C12_NoSilentTruncation ==
    (/\ LZSS_Called
     /\ AllInsideBuffers
     /\ \E k \in Accesses :
            /\ log[k] = Access("decompressed", "write", 0)
            /\ \E j \in Accesses : j > k /\ log[j].buffer = "compressed")
        => result = "ErrorInvalidFormat"

\* C13: on a run of LZSS_Decompress that returns true no byte of the stream
\* is read at an index below the stop index of the footer.
C13_NothingReadBelowStopIndex ==
    (LZSS_Called /\ AllInsideBuffers /\ result = "Success")
        => \A i \in Accesses :
               log[i].buffer = "compressed"
                   => ~ULess(log[i].index, LZSS_StopIndex(LZSS_Input, Len(LZSS_Input)))

\* the bytes of a buffer
BufferBytes(b) == [i \in 1..b.size |-> IF (i - 1) \in DOMAIN b.w THEN b.w[i - 1] ELSE 0]

\* C14: encoding a byte sequence with the reference encoder and running
\* LZSS_GetDecompressedSize and LZSS_Decompress on the result returns true
\* and yields the sequence.
C14_RoundTrip ==
    op[1] = "RoundTrip" => (result = "Success" /\ Has(out) /\ BufferBytes(Val(out)) = op[2])

\* round trip of data at least as long as its encoding
C14_RoundTripOfLongData ==
    (op[1] = "RoundTrip" /\ Len(op[2]) >= Len(LZSS_Encode(op[2])))
        => (result = "Success" /\ Has(out) /\ BufferBytes(Val(out)) = op[2])


----------------------------------------------------------------------------
(* The claims about offsets and sizes *)

\* the reads of the call that filled ncch_header at offset 0 with a header
\* that carries the NCSD tag
ContainerReads ==
    {i \in DOMAIN log :
        /\ log[i] = [ev |-> "Read", what |-> "ncch_header", pos |-> U32(0),
                     got |-> sizeof_NCCH_Header]
        /\ ObjectAt(U32(0), "ncch", ZeroNcchHeader).magic = MakeMagic("N", "C", "S", "D")}

\* the seek of the call to the ExeFS header, if after log index i there is
\* one, goes to exefs_offset * 0x200 from byte p
HeaderSeekFrom(i, p) ==
    \A j \in DOMAIN log :
        (j > i /\ log[j].ev = "Seek" /\ log[j - 1].ev # "Match")
            => log[j].pos = U32Add(U32Mul(self.ncch_header.exefs_offset, kBlockSize), U32(p))

\* the seeks of the call to sections go to the section's offset behind the
\* ExeFS header, from byte p
SectionSeeksFrom(p) ==
    \A j \in DOMAIN log :
        (j > 1 /\ log[j].ev = "Seek" /\ log[j - 1].ev = "Match")
            => log[j].pos =
                   WideAdd(WideAdd(U32Add(U32(self.exefs_header[log[j - 1].section].offset),
                                          U32Mul(self.ncch_header.exefs_offset, kBlockSize)),
                                   U32(sizeof_ExeFs_Header)),
                           U32(p))

\* the RomFS that ReadRomFS returned starts 0x1000 behind romfs_offset * 0x200 from byte p
RomFSFrom(p) ==
    (op = <<"ReadRomFS">> /\ result = "Success")
        => Val(out).offset =
               U32Add(U32Add(U32(p), U32Mul(self.ncch_header.romfs_offset, kBlockSize)),
                      U32(romfs_inner_header))

\* after the container header the call seeks to byte p, reads the header of
\* the partition there, refuses it unless it then holds the NCCH tag, and
\* counts the offsets of the regions from byte p
PartitionAt(p) ==
    /\ \A i \in ContainerReads :
           /\ i + 2 <= Len(log)
           /\ log[i + 1] = [ev |-> "Seek", pos |-> U32(p)]
           /\ log[i + 2].ev = "Read"
           /\ log[i + 2].what = "ncch_header"
           /\ log[i + 2].pos = U32(p)
           /\ self.ncch_offset = U32(p)
           /\ self.ncch_header.magic # MakeMagic("N", "C", "C", "H")
                  => /\ ~WasRead("exheader_header")
                     /\ ~self.is_exefs_loaded
                     /\ op[1] \in {"LoadExeFS", "LoadSectionExeFS", "Load"}
                            => result = "ErrorInvalidFormat"
           /\ HeaderSeekFrom(i + 2, p)
    /\ self.ncch_offset \in {U32(0), U32(p)}
    /\ self.ncch_offset # U32(0) => (SectionSeeksFrom(p) /\ RomFSFrom(p))

C15_NestedTagRefused ==
    /\ op = <<"LoadExeFS">>
    /\ ContainerReads # {}
    /\ result = "ErrorInvalidFormat"

\* a RomFS was located in the partition of an NCSD container
C15_RomFSInContainer ==
    /\ op = <<"ReadRomFS">>
    /\ result = "Success"
    /\ self.ncch_offset = U32(NCSD_ncch_offset)


\* a u32 times a small factor, not wrapped: <<hi, lo>> with a 16-bit lo
WideMul(a, k) == <<a[1] * k + ((a[2] * k) \div W16), (a[2] * k) % W16>>

\* the RomFS region the header in ncch_header declares, in bytes, not wrapped
DeclaredRomFSOffset ==
    WideAdd(WideAdd(self.ncch_offset, WideMul(self.ncch_header.romfs_offset, kBlockSize)),
            U32(romfs_inner_header))

DeclaredRomFSBlocks == WideMul(self.ncch_header.romfs_size, kBlockSize)

DeclaredRomFSEnd ==
    WideAdd(WideAdd(self.ncch_offset, WideMul(self.ncch_header.romfs_offset, kBlockSize)),
            DeclaredRomFSBlocks)

RomFSDeclared ==
    self.ncch_header.romfs_offset # U32(0) /\ self.ncch_header.romfs_size # U32(0)

\* C16: whenever ReadRomFS returns Success the returned offset is the
\* partition offset + romfs_offset * 0x200 + 0x1000, the returned size is
\* romfs_size * 0x200 - 0x1000, not negative, and offset + size is at most
\* the file's length; ReadRomFS returns ErrorNotUsed when the declared
\* offset or size is zero and an error when the declared region exceeds
\* the file's length, for every 32-bit romfs_offset and romfs_size.
C16_RomFSRegionAsDeclared ==
    (op = <<"ReadRomFS">> /\ file.open)
        => /\ result = "Success"
                  => /\ Val(out).offset = DeclaredRomFSOffset
                     /\ ~WideLess(DeclaredRomFSBlocks, U32(romfs_inner_header))
                     /\ WideAdd(Val(out).size, U32(romfs_inner_header)) = DeclaredRomFSBlocks
                     /\ ~WideLess(U32(file.size), WideAdd(Val(out).offset, Val(out).size))
           /\ ~RomFSDeclared => result = "ErrorNotUsed"
           /\ (RomFSDeclared /\ WideLess(U32(file.size), DeclaredRomFSEnd))
                  => result \notin {"Success", "ErrorNotUsed"}

\* the same for regions of at least 8 blocks that end below 4 GiB
C16_RomFSRegionAsDeclaredBelow4GiB ==
    (/\ op = <<"ReadRomFS">>
     /\ file.open
     /\ ~WideLess(DeclaredRomFSBlocks, U32(romfs_inner_header))
     /\ DeclaredRomFSEnd[1] < W16)
        => C16_RomFSRegionAsDeclared


----------------------------------------------------------------------------
(* The claims about errors *)

\* the events of the call with the given name
Events(ev) == {i \in DOMAIN log : log[i].ev = ev}

\* Load() called LoadExec, and ReadCode failed in it
CodeReadFailed ==
    /\ op = <<"Load">>
    /\ Events("Telemetry") # {}
    /\ Events("Process::Create") = {}
    /\ result # "Aborted"

\* the kind of error LoadSectionExeFS(".code") ended with, by what the call did
\* before it returned: no slot matched; the buffer was not allocated; the
\* bytes read were fewer than the section's; the decompressor returned false
CodeErrorKind ==
    IF Events("Match") = {} THEN "ErrorNotUsed"
    ELSE IF \A i \in Events("Read") : log[i].what # "section"
    THEN "ErrorMemoryAllocationFailed"
    ELSE IF Events("LZSS_Decompress") = {} THEN "Error"
    ELSE "ErrorInvalidFormat"

\* C17: when reading the .code section fails with an error kind during
\* Load() (section not present, I/O error, allocation failure, format
\* error of the decompressor), Load() returns that kind.
C17_CodeErrorKindReturned == CodeReadFailed => result = CodeErrorKind

\* what Load() returns instead
C17_CodeErrorReturnedAsError == CodeReadFailed => result = "Error"


\* the number of bytes the read at log index i asked for
Asked(i) ==
    CASE log[i].what = "ncch_header" -> sizeof_NCCH_Header
      [] log[i].what = "exheader_header" -> sizeof_ExHeader_Header
      [] log[i].what = "exefs_header" -> sizeof_ExeFs_Header
      [] log[i].what = "section" -> self.exefs_header[log[i - 2].section].size
      [] OTHER -> 4

\* the reads of the call that delivered fewer bytes than asked for
ShortReads == {i \in Events("Read") : log[i].got < Asked(i)}

\* the reads of the partition header of an NCSD container (line 288)
NestedReads == {i \in Events("Read") : log[i].what = "ncch_header" /\ log[i].pos # U32(0)}

\* a short read of a header
ShortHeaderReads == {i \in ShortReads : log[i].what \in HeaderNames}

\* C18: every short read of LoadExeFS or LoadSectionExeFS (the partition
\* header at offset 0, the nested partition header, the extended header,
\* the ExeFS header, a section body) makes the call return
\* ResultStatus::Error, and after a short read of a header the ExeFS is
\* not loaded.
C18_ShortReadReturnsError ==
    (op[1] \in {"LoadExeFS", "LoadSectionExeFS"} /\ result # "Aborted")
        => /\ ShortReads # {} => result = "Error"
           /\ ShortHeaderReads # {} => ~self.is_exefs_loaded

\* the same of every short read but that of the nested partition header
C18_CheckedShortReadReturnsError ==
    (op[1] \in {"LoadExeFS", "LoadSectionExeFS"} /\ result # "Aborted")
        => /\ ShortReads \ NestedReads # {} => result = "Error"
           /\ ShortHeaderReads # {} => ~self.is_exefs_loaded

\* a section body was read short
C18_ShortSectionRead ==
    /\ op[1] = "LoadSectionExeFS"
    /\ \E i \in ShortReads : log[i].what = "section"


----------------------------------------------------------------------------
(* The claims about keys and counters *)

\* the call read the whole extended header of a container that is encrypted
\* with slot keys, of a version and a method the loader knows
SlotKeyedCall ==
    /\ \E i \in Events("Read") :
           log[i].what = "exheader_header" /\ log[i].got = sizeof_ExHeader_Header
    /\ EncryptedContainer
    /\ ~FixedKeyFlag
    /\ ~SeedFlag
    /\ KnownVersion
    /\ KnownMethod

\* the slot the method byte on file selects
SelectedSlot ==
    CASE StoredNcchHeader.flags[4] = 0 -> "NCCH"
      [] StoredNcchHeader.flags[4] = 1 -> "NCCH7x"
      [] StoredNcchHeader.flags[4] = 10 -> "NCCHSec3"
      [] StoredNcchHeader.flags[4] = 11 -> "NCCHSec4"

\* the KeyY of the container: the first 16 bytes of the signature on file
StoredKeyY == SubSeq(StoredNcchHeader.signature, 1, 16)

\* the key store has the KeyX of the base slot and of the selected slot
SlotKeysAvailable == {"NCCH", SelectedSlot} \subseteq keyfile

\* C19: for an encrypted container without the fixed-key and seed flags,
\* the key material available, the extended-header and ExeFS-header
\* contexts take the normal key of the NCCH slot and the code and RomFS
\* contexts take the normal key of the slot the method byte selects (0:
\* NCCH, 1: 7x, 0x0A: Secure3, 0x0B: Secure4), each slot keyed with the
\* first 16 bytes of the signature; if the base slot or the selected slot
\* has no normal key the call fails with ErrorEncrypted and nothing is
\* decrypted.
C19_KeysBySlot ==
    SlotKeyedCall
        => IF SlotKeysAvailable
           THEN /\ \E i \in Events("Decrypt") : log[i].what = "exheader_header"
                /\ \A i \in Events("Decrypt") :
                       log[i].what \in {"exheader_header", "exefs_header"}
                           => log[i].key = NormalKeyOf("NCCH", StoredKeyY)
                /\ Val(self.exefs_aes).key = NormalKeyOf("NCCH", StoredKeyY)
                /\ Val(self.exerfs_code_aes).key = NormalKeyOf(SelectedSlot, StoredKeyY)
                /\ Val(self.romfs_aes).key = NormalKeyOf(SelectedSlot, StoredKeyY)
                /\ \A slot \in {"NCCH", SelectedSlot} :
                       \E i \in Events("SetKeyY") :
                           log[i].slot = slot /\ log[i].key = StoredKeyY
           ELSE /\ Events("Decrypt") = {}
                /\ ~self.is_exefs_loaded
                /\ op[1] \in {"LoadExeFS", "LoadSectionExeFS", "Load"}
                       => result = "ErrorEncrypted"

\* a container of method 0x0A was loaded with the keys of two slots
C19_Secure3KeysTaken ==
    /\ op = <<"LoadExeFS">>
    /\ SlotKeyedCall
    /\ SlotKeysAvailable
    /\ SelectedSlot = "NCCHSec3"
    /\ result = "Success"

\* the base slot has a normal key, the selected slot has none
C19_SelectedSlotKeyMissing ==
    /\ op = <<"LoadExeFS">>
    /\ SlotKeyedCall
    /\ "NCCH" \in keyfile
    /\ SelectedSlot \notin keyfile


\* the 4 bytes, most significant first, of a 32-bit block count times 0x200
\* modulo 2^32
BlockOffsetBytes(blocks) ==
    <<(blocks[1] * 2 + (blocks[2] \div 32768)) % 256, (blocks[2] \div 128) % 256,
      (blocks[2] * 2) % 256, 0>>

\* the counter of versions 0 and 2 for a region tag
TaggedCounter(tag) ==
    [i \in 1..16 |-> IF i <= 8 THEN StoredNcchHeader.partition_id[9 - i]
                     ELSE IF i = 9 THEN tag ELSE 0]

\* the counter of version 1 for the 4 bytes of a region offset
OffsetCounter(be) ==
    [i \in 1..16 |-> IF i <= 8 THEN StoredNcchHeader.partition_id[i]
                     ELSE IF i <= 12 THEN 0 ELSE be[i - 12]]

\* the call took an encrypted container of a known version as far as its counters
CountersSet ==
    /\ \E i \in Events("Read") :
           log[i].what = "exheader_header" /\ log[i].got = sizeof_ExHeader_Header
    /\ EncryptedContainer
    /\ KnownVersion

\* C20: the initial counter of each context by version.  Version 0 or 2:
\* bytes 0-7 are the partition id byte-reversed, byte 8 is the region tag
\* (1 extended header, 2 ExeFS header and code section, 3 RomFS), bytes
\* 9-15 are zero.  Version 1: bytes 0-7 are the partition id in its own
\* order, bytes 8-11 are zero, bytes 12-15 are the big-endian region offset
\* (0x200 for the extended header, exefs_offset * 0x200 and romfs_offset *
\* 0x200 modulo 2^32 for the ExeFS and RomFS contexts).
C20_CountersByVersion ==
    /\ CountersSet => Has(self.exefs_aes)
    /\ (Has(self.exefs_aes) /\ StoredNcchHeader.version \in {0, 2})
           => /\ \A i \in Events("Decrypt") :
                     log[i].what = "exheader_header" => log[i].ctr = TaggedCounter(1)
              /\ Val(self.exefs_aes).ctr = TaggedCounter(2)
              /\ Val(self.exerfs_code_aes).ctr = TaggedCounter(2)
              /\ Val(self.romfs_aes).ctr = TaggedCounter(3)
    /\ (Has(self.exefs_aes) /\ StoredNcchHeader.version = 1)
           => /\ \A i \in Events("Decrypt") :
                     log[i].what = "exheader_header"
                         => log[i].ctr = OffsetCounter(<<0, 0, 2, 0>>)
              /\ Val(self.exefs_aes).ctr =
                     OffsetCounter(BlockOffsetBytes(StoredNcchHeader.exefs_offset))
              /\ Val(self.romfs_aes).ctr =
                     OffsetCounter(BlockOffsetBytes(StoredNcchHeader.romfs_offset))

\* a version-1 container whose RomFS offset overflows 32 bits was decrypted
C20_Version1Decrypted ==
    /\ op = <<"LoadExeFS">>
    /\ CountersSet
    /\ StoredNcchHeader.version = 1
    /\ StoredNcchHeader.romfs_offset = U32(8388609)
    /\ Decrypted("exheader_header")
    /\ result = "Success"

\* a version-2 container was decrypted
C20_Version2Decrypted ==
    /\ op = <<"LoadExeFS">>
    /\ CountersSet
    /\ StoredNcchHeader.version = 2
    /\ Decrypted("exheader_header")
    /\ result = "Success"


----------------------------------------------------------------------------
(* The claims about sections and states *)

\* the slots LoadSectionExeFS matched in the call
SectionMatches == {j \in Events("Match") : op[1] = "LoadSectionExeFS"}

\* the byte offset of slot s in the file: partition, ExeFS, header, section
SectionFileOffset(s) ==
    WideAdd(self.ncch_offset,
            WideAdd(U32(sizeof_ExeFs_Header),
                    U32Add(self.exefs_offset, U32(self.exefs_header[s].offset))))

\* the context a section of the requested name is decrypted with
RequestedContext == IF op[2] = Str_code THEN self.exerfs_code_aes ELSE self.exefs_aes

\* the section of the requested name is decompressed
RequestedCompressed == op[2] = Str_code /\ self.is_compressed

\* the event at log index i decrypts slot s with the context of the requested name
DecryptsSection(i, s) ==
    /\ i \in Events("Decrypt")
    /\ log[i] = [ev |-> "Decrypt", what |-> "section", key |-> Val(RequestedContext).key,
                 ctr |-> Val(RequestedContext).ctr,
                 seek |-> self.exefs_header[s].offset + sizeof_ExeFs_Header]

\* what follows the whole read at log index i of slot s
SectionProcessed(i, s) ==
    /\ result # "Error"
    /\ IF Has(RequestedContext) THEN DecryptsSection(i + 1, s)
       ELSE Events("Decrypt") = {}
    /\ IF RequestedCompressed
       THEN (i + (IF Has(RequestedContext) THEN 2 ELSE 1)) \in Events("LZSS_Decompress")
       ELSE /\ Events("LZSS_Decompress") = {}
            /\ result = "Success"
            /\ Val(out).size = self.exefs_header[s].size

\* C21: when LoadSectionExeFS finds a section, the first slot whose name
\* matches, it reads section.size bytes at the partition offset +
\* exefs_offset + 0x200 + section.offset and, if there are contexts,
\* decrypts them at stream offset section.offset + 0x200 with the code
\* context for ".code" and the ExeFS-header context for any other name;
\* .code is decompressed, after the decryption, only when the extended
\* header flags it compressed, and without decompression the buffer
\* returned has section.size bytes.  (The allocation of the buffer for the
\* compressed bytes may fail first.)
C21_SectionReadAndDecrypted ==
    \A j \in SectionMatches :
        LET s == log[j].section
        IN  /\ SectionNameIs(self.exefs_header, s, op[2])
            /\ \A k \in 1..(s - 1) : ~SectionNameIs(self.exefs_header, k, op[2])
            /\ log[j + 1] = [ev |-> "Seek", pos |-> SectionFileOffset(s)]
            /\ \/ /\ RequestedCompressed
                  /\ result = "ErrorMemoryAllocationFailed"
                  /\ Len(log) = j + 1
               \/ /\ log[j + 2].ev = "Read"
                  /\ log[j + 2].what = "section"
                  /\ log[j + 2].pos = SectionFileOffset(s)
                  /\ log[j + 2].got <= self.exefs_header[s].size
                  /\ IF log[j + 2].got = self.exefs_header[s].size
                     THEN SectionProcessed(j + 2, s)
                     ELSE result = "Error" /\ Len(log) = j + 2

\* an uncompressed .code section was decrypted with a key of its own
C21_CodeDecryptedWithCodeKey ==
    /\ op = <<"LoadSectionExeFS", Str_code>>
    /\ result = "Success"
    /\ Decrypted("section")
    /\ ~self.is_compressed
    /\ Val(self.exerfs_code_aes).key # Val(self.exefs_aes).key

\* a compressed .code section was decrypted and decompressed
C21_CodeDecryptedAndDecompressed ==
    /\ op = <<"LoadSectionExeFS", Str_code>>
    /\ result = "Success"
    /\ Decrypted("section")
    /\ Events("LZSS_Decompress") # {}


\* the 32-bit value that ends a buffer, least significant byte first, as
\* <<hi, lo>>
Trailer(buffer) ==
    LET n == Len(buffer)
    IN  <<buffer[n] * 256 + buffer[n - 1], buffer[n - 2] * 256 + buffer[n - 3]>>

\* C22: the length LZSS_GetDecompressedSize computes is the trailer plus
\* compressed_size and is never smaller than compressed_size, so that the
\* zero-filled output holds the compressed_size bytes copied into it, also
\* when the sum exceeds 2^32 - 1.
C22_OutputHoldsInput ==
    (LZSS_Called /\ Len(LZSS_Input) >= 4)
        => LET size == LZSS_GetDecompressedSize(LZSS_Input, Len(LZSS_Input))
           IN  /\ Has(size)
               /\ WideAdd(Trailer(LZSS_Input), U32(Len(LZSS_Input))) = Val(size)
               /\ ~WideLess(Val(size), U32(Len(LZSS_Input)))
               /\ Access("decompressed", "write", ToS32(Val(size))) \notin
                      {log[i] : i \in Accesses}

\* the same when the sum stays below 2^32 and the trailer is not negative
C22_OutputHoldsInputUnwrapped ==
    (/\ LZSS_Called
     /\ Len(LZSS_Input) >= 4
     /\ WideAdd(Trailer(LZSS_Input), U32(Len(LZSS_Input)))[1] < W16)
        => C22_OutputHoldsInput

\* C23: if Load() returns an error other than ErrorAlreadyLoaded the
\* loader is not left loaded: a later Load() is tried again and LoadExec()
\* reports ErrorNotLoaded.
C23_FailedLoadLeavesUnloaded ==
    (op = <<"Load">> /\ result \notin {"Success", "ErrorAlreadyLoaded", "Aborted"})
        => ~self.is_loaded

\* the same as the calls show it: after a Load() that failed, the next
\* Load() is not refused and the next LoadExec() reports ErrorNotLoaded
C23_FailedLoadIsTriedAgain ==
    [][(op = <<"Load">> /\ result \notin {"Success", "ErrorAlreadyLoaded", "Aborted"})
           => /\ op' = <<"Load">> => result' # "ErrorAlreadyLoaded"
              /\ op' = <<"LoadExec">> => result' = "ErrorNotLoaded"]_vars

\* C24: in every reachable state is_loaded implies is_exefs_loaded, and no
\* call sets either flag from true back to false.
C24_FlagsOrderedAndMonotonic ==
    /\ [](self.is_loaded => self.is_exefs_loaded)
    /\ [][/\ self.is_loaded => self'.is_loaded
          /\ self.is_exefs_loaded => self'.is_exefs_loaded]_vars

\* a call returned to a loader that was loaded before it
C24_CallAfterLoad ==
    /\ self.is_loaded
    /\ self.is_exefs_loaded
    /\ op[1] \in {"LoadExeFS", "LoadSectionExeFS", "ReadRomFS", "LoadExec"}

\* ReadRomFS returned with no header parsed by it or before it
UnparsedRomFSCall ==
    /\ op = <<"ReadRomFS">>
    /\ file.open
    /\ ~self.is_exefs_loaded
    /\ ~WasRead("ncch_header")
    /\ self.file_pos = U32(0)

\* C25: ReadRomFS called before any successful LoadExeFS parses the header
\* first or returns an error; it returns neither Success nor ErrorNotUsed
\* from a header that was not read from the file.
C25_RomFSFromParsedHeader ==
    UnparsedRomFSCall => result \notin {"Success", "ErrorNotUsed"}

\* the indices of the compressed buffer the call read, in the order of the reads
CompressedReads == {i \in Accesses : log[i].buffer = "compressed"}

\* C26: LZSS_Decompress terminates on every input: the read cursor goes
\* down on every pass of the outer loop and on every symbol and does not
\* wrap below zero (every byte read lies below the first read cursor and
\* at or above 0, and none is read twice), and the call ends with true or
\* false.
C26_DecompressorTerminates ==
    (LZSS_Called /\ Len(LZSS_Input) >= 8)
        => /\ result \in {"Success", "ErrorInvalidFormat"}
           /\ \A i \in CompressedReads :
                  /\ log[i].index >= 0
                  /\ log[i].index < LZSS_StartIndex(LZSS_Input, Len(LZSS_Input))
           /\ \A i, j \in CompressedReads : log[i].index = log[j].index => i = j

\* the same of the runs that stay inside the buffers
C26_BoundedRunsTerminate ==
    (LZSS_Called /\ AllInsideBuffers) => C26_DecompressorTerminates

====
